---- MODULE Spec2Model ----
(***************************************************************************)
(* Verification model of joshlomas99/Advent-of-Code-2023 (Python).         *)
(* Each day's solver is an independent program; each gets its own          *)
(* variables, its own initial condition and its own specification.  While  *)
(* one day's specification runs, the variables of the other days rest at   *)
(* the value Idle.                                                         *)
(*                                                                         *)
(* Conventions: positions and directions are pairs <<row, col>> as in the  *)
(* source (0-based); a grid is a function row -> (col -> cell); Python     *)
(* sets are TLA+ sets, Python dicts are functions on their key set.        *)
(***************************************************************************)
EXTENDS Integers, Sequences, FiniteSets, TLC

VARIABLES
    \* ---- Day16 (beam propagation) ----
    grid16,          \* grid            (Day16.py:107)
    beams,           \* beams           (Day16.py:109) the set the for loop iterates
    todo16,          \* elements of beams the for loop (Day16.py:117) has not visited yet
    new_beams,       \* new_beams       (Day16.py:115)
    searched,        \* searched        (Day16.py:111)
    num_energised,   \* num_energised   (Day16.py:169)
    pc16,            \* position in Day16_Part1
    \* ---- Day21 (polynomial projection of Day21_Part2) ----
    metric21,        \* num_reachable[65 + 131*i], i = 0..3 (Day21.py:153-183)
    mod_f,           \* mod_f           (Day21.py:188)
    a21,             \* a               (Day21.py:198)
    b21,             \* b               (Day21.py:209)
    c21,             \* c               (Day21.py:211)
    n21,             \* n               (Day21.py:214)
    steps21,         \* steps           (Day21.py:216), the value returned
    pc21,            \* position in Day21_Part2
    \* ---- Day14 (rock cycles, Day14_Part2) ----
    rocks,           \* rocks           (Day14.py:227, 237)
    cycles,          \* cycles          (Day14.py:229)
    rock_dict,       \* rock_dict       (Day14.py:231): cycle number -> layout
    repeat,          \* repeat          (Day14.py:244)
    loop_length,     \* loop_length     (Day14.py:248)
    final_layout,    \* final_layout    (Day14.py:252)
    load14,          \* load            (Day14.py:254), the value returned
    pc14,            \* position in Day14_Part2
    sim_rocks,       \* reference: the layout after sim_cycles applications of cycle_rocks
    sim_cycles,
    \* ---- Day10 (pipe loop, Day10_Part1 and Day10_Part2) ----
    input10,         \* the puzzle input: how the grid in the file was laid out
    part10,          \* 1: Day10_Part1 runs, 2: Day10_Part2 runs
    pipes,           \* pipes           (Day10.py:99, 169, 198)
    start_point,     \* start_point     (Day10.py:102, 174)
    loop10,          \* loop            (Day10.py:104, 176)
    next_dir,        \* next_dir        (Day10.py:106, 126)
    next_pos,        \* next_pos        (Day10.py:108, 128)
    pos10,           \* pos             (Day10.py:210)
    inside,          \* inside          (Day10.py:212)
    row_type,        \* row_type        (Day10.py:212)
    enclosed_tiles,  \* enclosed_tiles  (Day10.py:214), returned by Part2
    furthest_point,  \* furthest_point  (Day10.py:131), returned by Part1
    pc10,            \* position in the function, or the exception it ended with
    \* ---- Day17 (constrained shortest path, Day17_Part1 and Day17_Part2) ----
    grid17,          \* grid            (Day17.py:95, 175)
    part17,          \* 1: Day17_Part1 runs, 2: Day17_Part2 runs
    min_heatlosses,  \* min_heatlosses  (Day17.py:102, 181)
    queue,           \* queue           (Day17.py:105, 184): the set of entries on the heap
    min_heatloss,    \* min_heatloss    (Day17.py:146, 231), the value returned
    pc17,            \* position in the function, or the exception it ended with
    walker,          \* reference: a path from the top-left cell, walked move by move
    \* ---- Day21 (step counting, Day21_Part1) ----
    rocks21,         \* rocks           (Day21.py:84)
    start21,         \* pos as parsed   (Day21.py:84)
    bounds21,        \* bounds          (Day21.py:84)
    reachable,       \* reachable       (Day21.py:87)
    last_reached,    \* last_reached    (Day21.py:89)
    all_reached,     \* all_reached     (Day21.py:91)
    steps,           \* steps           (Day21.py:93): iterations of the for loop completed
    num_reachable,   \* num_reachable   (Day21.py:115), the value returned
    pc21w,           \* position in Day21_Part1
    walk_ends,       \* reference: the plots where a walk of exactly `steps` steps can end
    \* ---- Day20 (pulse propagation, push_button and pushes_to_low) ----
    loop20,          \* one of the loops get_input(split_loops=True) returns (Day20.py:65)
    modules20,       \* modules         (Day20.py:105)
    states20,        \* states          (Day20.py:105)
    connected20,     \* connected       (Day20.py:105)
    queue20,         \* queue           (Day20.py:186)
    n_low,           \* n_low           (Day20.py:183)
    n_high,          \* n_high          (Day20.py:195)
    n20,             \* n               (Day20.py:339), the value pushes_to_low returns
    pc20,            \* position in pushes_to_low and push_button
    sent20,          \* history: the pulses appended to queue during the current call, in order
    handled20,       \* history: the pulses popped from queue during the current call, in order
    \* ---- Day14 (one call of roll_rocks) ----
    layout14,        \* the argument rocks of roll_rocks (Day14.py:51)
    direction14,     \* the argument direction (Day14.py:51)
    rolled14,        \* the layout roll_rocks returns (Day14.py:117)
    pc14r,           \* before or after the call
    \* ---- Day18 (the volume of the lagoon, three ways) ----
    plan18,          \* the dig plan as a list of (direction, distance)
    volume_flood,    \* the volume Day18_Part1 returns (Day18.py:134), -1 before
    volume_shoelace, \* the volume Day18_Part2_Shoelace returns (Day18.py:183), -1 before
    volume_sections, \* the volume Day18_Part2 returns (Day18.py:298), -1 before
    \* ---- Day19 (Day19_Part2 and split_dests) ----
    workflows19,     \* workflows (Day19.py:236): name -> list of rules
    part_locs19,     \* part_locs (Day19.py:241, 250)
    final_state19,   \* final_state (Day19.py:243)
    produced19,      \* history: the ranges the last call of split_dests produced, each with its source
    num_comb19,      \* num_comb (Day19.py:263), the value returned
    pc19,            \* position in Day19_Part2
    \* ---- Day12 (one call of valid_arrs) ----
    arr12,           \* the argument arr of valid_arrs, a list of characters (Day12.py:47)
    nums12,          \* the argument nums (Day12.py:47)
    result12,        \* what the call gave: a value returned or an exception raised
    pc12,            \* before or after the call
    \* ---- Day15 (the lens boxes of Day15_Part2) ----
    boxes15,         \* boxes (Day15.py:149): box number -> list of (label, focal length)
    string15,        \* the instruction processed last (Day15.py:151)
    done15,          \* the number of instructions processed
    total_focusing_power, \* the value returned (Day15.py:187), -1 before
    pc15             \* position in Day15_Part2

vars16 == <<grid16, beams, todo16, new_beams, searched, num_energised, pc16>>
vars21 == <<metric21, mod_f, a21, b21, c21, n21, steps21, pc21>>
vars14 == <<rocks, cycles, rock_dict, repeat, loop_length, final_layout, load14, pc14,
            sim_rocks, sim_cycles>>
vars10 == <<input10, part10, pipes, start_point, loop10, next_dir, next_pos, pos10,
            inside, row_type, enclosed_tiles, furthest_point, pc10>>
vars17 == <<grid17, part17, min_heatlosses, queue, min_heatloss, pc17, walker>>
vars21w == <<rocks21, start21, bounds21, reachable, last_reached, all_reached, steps,
             num_reachable, pc21w, walk_ends>>
vars20 == <<loop20, modules20, states20, connected20, queue20, n_low, n_high, n20, pc20,
             sent20, handled20>>
vars14r == <<layout14, direction14, rolled14, pc14r>>
vars18 == <<plan18, volume_flood, volume_shoelace, volume_sections>>
vars19 == <<workflows19, part_locs19, final_state19, produced19, num_comb19, pc19>>
vars12 == <<arr12, nums12, result12, pc12>>
vars15 == <<boxes15, string15, done15, total_focusing_power, pc15>>
vars == <<vars16, vars21, vars14, vars10, vars17, vars21w, vars20, vars14r, vars18, vars19, vars12, vars15>>

\* what each day's program leaves alone: the other days' variables
Rest16 == UNCHANGED <<vars21, vars14, vars10, vars17, vars21w, vars20, vars14r, vars18, vars19, vars12, vars15>>
Rest21 == UNCHANGED <<vars16, vars14, vars10, vars17, vars21w, vars20, vars14r, vars18, vars19, vars12, vars15>>
Rest14 == UNCHANGED <<vars16, vars21, vars10, vars17, vars21w, vars20, vars14r, vars18, vars19, vars12, vars15>>
Rest10 == UNCHANGED <<vars16, vars21, vars14, vars17, vars21w, vars20, vars14r, vars18, vars19, vars12, vars15>>
Rest17 == UNCHANGED <<vars16, vars21, vars14, vars10, vars21w, vars20, vars14r, vars18, vars19, vars12, vars15>>
Rest21w == UNCHANGED <<vars16, vars21, vars14, vars10, vars17, vars20, vars14r, vars18, vars19, vars12, vars15>>
Rest20 == UNCHANGED <<vars16, vars21, vars14, vars10, vars17, vars21w, vars14r, vars18, vars19, vars12, vars15>>
Rest14r == UNCHANGED <<vars16, vars21, vars14, vars10, vars17, vars21w, vars20, vars18, vars19, vars12, vars15>>
Rest18 == UNCHANGED <<vars16, vars21, vars14, vars10, vars17, vars21w, vars20, vars14r, vars19, vars12, vars15>>
Rest19 == UNCHANGED <<vars16, vars21, vars14, vars10, vars17, vars21w, vars20, vars14r, vars18, vars12, vars15>>
Rest12 == UNCHANGED <<vars16, vars21, vars14, vars10, vars17, vars21w, vars20, vars14r, vars18, vars19, vars15>>
Rest15 == UNCHANGED <<vars16, vars21, vars14, vars10, vars17, vars21w, vars20, vars14r, vars18, vars19, vars12>>

Idle == "idle"

(***************************************************************************)
(* Shared helpers                                                          *)
(***************************************************************************)

\* add_tuple(a, b): elementwise sum of two pairs
add_tuple(a, b) == <<a[1] + b[1], a[2] + b[2]>>

\* all subsets of S with at most k elements
RECURSIVE SubsetsUpTo(_, _)
SubsetsUpTo(S, k) ==
    IF k = 0 \/ S = {} THEN {{}}
    ELSE LET x == CHOOSE y \in S : TRUE
             rest == S \ {x}
         IN  SubsetsUpTo(rest, k) \cup {T \cup {x} : T \in SubsetsUpTo(rest, k - 1)}

\* the sequence <<F(1), ..., F(n)>>, built element by element (TLC keeps a
\* sequence built this way as a plain tuple instead of re-evaluating F on each use)
RECURSIVE ToSeq(_, _)
ToSeq(f, n) == IF n = 0 THEN <<>> ELSE Append(ToSeq(f, n - 1), f[n])
Tabulate(n, F(_)) == ToSeq([i \in 1 .. n |-> F(i)], n)

\* len(grid), len(grid[0]) for a grid stored as row -> (col -> cell)
NumRows(g) == Cardinality(DOMAIN g)
NumCols(g) == Cardinality(DOMAIN g[0])
Cells(R, C) == (0 .. R - 1) \X (0 .. C - 1)

\* the grids of R rows and C columns whose cells hold `blank`, except for at most k
\* cells that hold an element of `others`
SparseGrids(R, C, blank, others, k) ==
    UNION { { [r \in 0 .. R - 1 |-> [c \in 0 .. C - 1 |->
                 IF <<r, c>> \in D THEN f[<<r, c>>] ELSE blank]] : f \in [D -> others] }
            : D \in SubsetsUpTo(Cells(R, C), k) }

Idle16 ==
    /\ grid16 = Idle /\ beams = Idle /\ todo16 = Idle /\ new_beams = Idle
    /\ searched = Idle /\ num_energised = Idle /\ pc16 = Idle

Idle21 ==
    /\ metric21 = Idle /\ mod_f = Idle /\ a21 = Idle /\ b21 = Idle /\ c21 = Idle
    /\ n21 = Idle /\ steps21 = Idle /\ pc21 = Idle

Idle14 ==
    /\ rocks = Idle /\ cycles = Idle /\ rock_dict = Idle /\ repeat = Idle
    /\ loop_length = Idle /\ final_layout = Idle /\ load14 = Idle /\ pc14 = Idle
    /\ sim_rocks = Idle /\ sim_cycles = Idle

Idle10 ==
    /\ input10 = Idle /\ part10 = Idle /\ pipes = Idle /\ start_point = Idle
    /\ loop10 = Idle /\ next_dir = Idle /\ next_pos = Idle /\ pos10 = Idle
    /\ inside = Idle /\ row_type = Idle /\ enclosed_tiles = Idle
    /\ furthest_point = Idle /\ pc10 = Idle

Idle17 ==
    /\ grid17 = Idle /\ part17 = Idle /\ min_heatlosses = Idle /\ queue = Idle
    /\ min_heatloss = Idle /\ pc17 = Idle /\ walker = Idle

Idle21w ==
    /\ rocks21 = Idle /\ start21 = Idle /\ bounds21 = Idle /\ reachable = Idle
    /\ last_reached = Idle /\ all_reached = Idle /\ steps = Idle
    /\ num_reachable = Idle /\ pc21w = Idle /\ walk_ends = Idle

Idle20 ==
    /\ loop20 = Idle /\ modules20 = Idle /\ states20 = Idle /\ connected20 = Idle
    /\ queue20 = Idle /\ n_low = Idle /\ n_high = Idle /\ n20 = Idle /\ pc20 = Idle
    /\ sent20 = Idle /\ handled20 = Idle

Idle14r ==
    /\ layout14 = Idle /\ direction14 = Idle /\ rolled14 = Idle /\ pc14r = Idle

Idle18 ==
    /\ plan18 = Idle /\ volume_flood = Idle /\ volume_shoelace = Idle
    /\ volume_sections = Idle

Idle19 ==
    /\ workflows19 = Idle /\ part_locs19 = Idle /\ final_state19 = Idle
    /\ produced19 = Idle /\ num_comb19 = Idle /\ pc19 = Idle

Idle12 ==
    /\ arr12 = Idle /\ nums12 = Idle /\ result12 = Idle /\ pc12 = Idle

Idle15 ==
    /\ boxes15 = Idle /\ string15 = Idle /\ done15 = Idle
    /\ total_focusing_power = Idle /\ pc15 = Idle

(***************************************************************************)
(* Day16: beam propagation (Day16_Part1)                                   *)
(***************************************************************************)

MaxDim16 == 3       \* grids of up to MaxDim16 x MaxDim16 tiles
MaxDevices16 == 1   \* at most this many mirrors and splitters in a grid

Devices16 == {"\\", "/", "|", "-"}

\* get_input: a rectangular grid of '.', mirrors and splitters
Grids16(maxDim, maxDevices) ==
    UNION { SparseGrids(R, C, ".", Devices16, maxDevices)
            : <<R, C>> \in (1 .. maxDim) \X (1 .. maxDim) }

Init16 ==
    /\ Idle21 /\ Idle14 /\ Idle10 /\ Idle17 /\ Idle21w /\ Idle20 /\ Idle14r /\ Idle18 /\ Idle19 /\ Idle12 /\ Idle15
    /\ grid16 \in Grids16(MaxDim16, MaxDevices16)
    /\ beams = {<<<<0, -1>>, <<0, 1>>>>}
    /\ todo16 = beams
    /\ new_beams = {}
    /\ searched = {}
    /\ num_energised = -1
    /\ pc16 = "loop"

\* the test of Day16.py:122
OutOfGrid16(g, loc) ==
    \/ loc[1] < 0 \/ loc[2] < 0
    \/ loc[1] >= NumRows(g) \/ loc[2] >= NumCols(g)

\* a plausible slip: a splitter sends the beam on in one of its two directions only
Successors16_OneWay(g, loc, direction) ==
    LET new_loc == add_tuple(loc, direction)
        tile == g[new_loc[1]][new_loc[2]]
    IN  IF tile = "\\" THEN {<<new_loc, <<direction[2], direction[1]>>>>}
        ELSE IF tile = "/" THEN {<<new_loc, <<-direction[2], -direction[1]>>>>}
        ELSE IF tile = "|" /\ direction[2] # 0 THEN {<<new_loc, <<-1, 0>>>>}
        ELSE IF tile = "-" /\ direction[1] # 0 THEN {<<new_loc, <<0, -1>>>>}
        ELSE {<<new_loc, direction>>}

\* the beam states one beam state produces when it moves one tile (Day16.py:125-159),
\* before the `not in searched` filter
Successors16(g, loc, direction) ==
    LET new_loc == add_tuple(loc, direction)
        tile == g[new_loc[1]][new_loc[2]]
    IN  IF tile = "\\" THEN {<<new_loc, <<direction[2], direction[1]>>>>}
        ELSE IF tile = "/" THEN {<<new_loc, <<-direction[2], -direction[1]>>>>}
        ELSE IF tile = "|" /\ direction[2] # 0
             THEN {<<new_loc, <<-1, 0>>>>, <<new_loc, <<1, 0>>>>}
        ELSE IF tile = "-" /\ direction[1] # 0
             THEN {<<new_loc, <<0, -1>>>>, <<new_loc, <<0, 1>>>>}
        ELSE {<<new_loc, direction>>}

\* a plausible slip: the successors are added without the `not in searched` test
BeamStep_NoFilter ==
    /\ Rest16
    /\ pc16 = "loop"
    /\ \E b \in todo16 :
         LET loc == b[1]
             direction == b[2]
         IN  /\ todo16' = todo16 \ {b}
             /\ searched' = searched \cup {b}
             /\ IF OutOfGrid16(grid16, add_tuple(loc, direction))
                THEN new_beams' = new_beams
                ELSE new_beams' = new_beams \cup Successors16(grid16, loc, direction)
    /\ UNCHANGED <<grid16, beams, num_energised, pc16>>

\* one iteration of `for loc, direction in beams` (Day16.py:117-161); the order in
\* which a Python set is iterated is not fixed by the program, so any unvisited
\* element may come next
BeamStep ==
    /\ Rest16
    /\ pc16 = "loop"
    /\ \E b \in todo16 :
         LET loc == b[1]
             direction == b[2]
         IN  /\ todo16' = todo16 \ {b}
             /\ searched' = searched \cup {b}
             /\ IF OutOfGrid16(grid16, add_tuple(loc, direction))
                THEN new_beams' = new_beams
                ELSE new_beams' = new_beams \cup
                        (Successors16(grid16, loc, direction) \ searched)
    /\ UNCHANGED <<grid16, beams, num_energised, pc16>>

\* end of the for loop with beams to follow: beams = new_beams.copy() (Day16.py:163),
\* then the next round starts with new_beams = set() (Day16.py:115)
NextRound ==
    /\ Rest16
    /\ pc16 = "loop"
    /\ todo16 = {}
    /\ new_beams # {}
    /\ beams' = new_beams
    /\ todo16' = new_beams
    /\ new_beams' = {}
    /\ UNCHANGED <<grid16, searched, num_energised, pc16>>

\* energised = {b[0] for b in searched} (Day16.py:166)
Energised(s) == {b[1] : b \in s}

\* a plausible slip: the entry position outside the grid is counted as a tile
CountEnergised_WithEntry(s) == Cardinality(Energised(s))

\* num_energised = len(energised) - 1 (Day16.py:169)
CountEnergised(s) == Cardinality(Energised(s)) - 1

\* the while loop ends (beams empty) and the tiles are counted (Day16.py:163-171)
Count16 ==
    /\ Rest16
    /\ pc16 = "loop"
    /\ todo16 = {}
    /\ new_beams = {}
    /\ beams' = {}
    /\ num_energised' = CountEnergised(searched)
    /\ pc16' = "done"
    /\ UNCHANGED <<grid16, todo16, new_beams, searched>>

Next16 == BeamStep \/ NextRound \/ Count16

SpecDay16 == Init16 /\ [][Next16]_vars

AllEmpty16(g) == \A r \in DOMAIN g : \A c \in DOMAIN g[r] : g[r][c] = "."

\* C7: on a grid of R rows and C columns that holds only '.', the beam that enters
\* at the top-left tile moving right energises exactly the C tiles of the top row:
\* Day16_Part1 returns C, and the tiles of `searched` other than the entry position
\* are the tiles <<0, 0>> .. <<0, C-1>>.
C7_EmptyGridEnergisesTopRow ==
    (pc16 = "done" /\ AllEmpty16(grid16)) =>
        /\ num_energised = NumCols(grid16)
        /\ Energised(searched) \ {<<0, -1>>} = {<<0, c>> : c \in 0 .. NumCols(grid16) - 1}

\* C7's case: the 3x3 all-empty grid has been searched and the answer is 3
C7_Witness ==
    /\ pc16 = "done"
    /\ AllEmpty16(grid16)
    /\ NumRows(grid16) = 3 /\ NumCols(grid16) = 3
    /\ num_energised = 3

\* the mirror and splitter rules: the directions in which a beam leaves a tile that it
\* enters in direction d
Deflect16(tile, d) ==
    CASE tile = "\\" -> { IF d = <<0, 1>> THEN <<1, 0>>
                          ELSE IF d = <<1, 0>> THEN <<0, 1>>
                          ELSE IF d = <<0, -1>> THEN <<-1, 0>>
                          ELSE <<0, -1>> }
      [] tile = "/"  -> { IF d = <<0, 1>> THEN <<-1, 0>>
                          ELSE IF d = <<-1, 0>> THEN <<0, 1>>
                          ELSE IF d = <<0, -1>> THEN <<1, 0>>
                          ELSE <<0, -1>> }
      [] tile = "|"  -> IF d \in {<<0, 1>>, <<0, -1>>} THEN {<<-1, 0>>, <<1, 0>>} ELSE {d}
      [] tile = "-"  -> IF d \in {<<1, 0>>, <<-1, 0>>} THEN {<<0, -1>>, <<0, 1>>} ELSE {d}
      [] OTHER       -> {d}

\* the beam states on in-grid tiles that are one move away from the beam states of B
Moved16(g, B) ==
    UNION { { <<add_tuple(b[1], b[2]), e>>
              : e \in Deflect16(g[add_tuple(b[1], b[2])[1]][add_tuple(b[1], b[2])[2]], b[2]) }
            : b \in { x \in B : ~OutOfGrid16(g, add_tuple(x[1], x[2])) } }

\* the beam states reachable from the states of `frontier`, together with `seen`
RECURSIVE Reach16(_, _, _)
Reach16(g, frontier, seen) ==
    IF frontier = {} THEN seen
    ELSE Reach16(g, Moved16(g, frontier) \ (seen \cup frontier), seen \cup frontier)

\* the in-grid tiles a beam reaches that enters at the top-left tile moving right
ReachableTiles16(g) ==
    { b[1] : b \in Reach16(g, {<<<<0, -1>>, <<0, 1>>>>}, {}) } \ {<<0, -1>>}

\* C14: whatever the order in which the states of `beams` are visited within a round, the
\* set of energised tiles that Day16_Part1 ends with is the set of in-grid tiles that are
\* reachable from the entry state under the mirror and splitter rules, and the function
\* returns the size of that set.
C14_EnergisedIsReachableSet ==
    (pc16 = "done") =>
        /\ Energised(searched) \ {<<0, -1>>} = ReachableTiles16(grid16)
        /\ num_energised = Cardinality(ReachableTiles16(grid16))

C14_Witness ==
    /\ pc16 = "done"
    /\ NumRows(grid16) = 3 /\ NumCols(grid16) = 3
    /\ grid16[0][1] = "|"
    /\ <<<<0, 1>>, <<1, 0>>>> \in searched /\ <<<<0, 1>>, <<-1, 0>>>> \in searched
    /\ num_energised = 4

(***************************************************************************)
(* Day16 on grids that hold a closed circuit, from every entry state       *)
(* (the while loop of Day16_Part1 and of each start of Day16_Part2)        *)
(***************************************************************************)

MaxCircuit16 == 3   \* circuits of 2 .. MaxCircuit16 tiles per side

\* a grid of h rows and w columns with a mirror in each corner, set so that a beam on the
\* border of the grid runs around it for ever
CircuitTile(h, w, r, c) ==
    CASE <<r, c>> \in {<<0, 0>>, <<h - 1, w - 1>>} -> "/"
      [] <<r, c>> \in {<<0, w - 1>>, <<h - 1, 0>>} -> "\\"
      [] OTHER                                       -> "."

\* get_input: the grids that hold such a circuit with one tile replaced by any tile (a
\* splitter on the circuit lets a beam from outside onto it)
Circuits16(maxSide) ==
    UNION { { [r \in 0 .. hw[1] - 1 |-> [c \in 0 .. hw[2] - 1 |->
                  IF <<r, c>> = pt[1] THEN pt[2] ELSE CircuitTile(hw[1], hw[2], r, c)]]
              : pt \in Cells(hw[1], hw[2]) \X (Devices16 \cup {"."}) }
            : hw \in (2 .. maxSide) \X (2 .. maxSide) }

\* possible_starts (Day16.py:219-225): outside the grid, travelling in
possible_starts(g) ==
    { <<<<-1, c>>, <<1, 0>>>> : c \in 0 .. NumCols(g) - 1 }
    \cup { <<<<NumRows(g), c>>, <<-1, 0>>>> : c \in 0 .. NumCols(g) - 1 }
    \cup { <<<<r, -1>>, <<0, 1>>>> : r \in 0 .. NumRows(g) - 1 }
    \cup { <<<<r, NumCols(g)>>, <<0, -1>>>> : r \in 0 .. NumRows(g) - 1 }

\* Day16.py:232-236: the search of one start (the start of Day16_Part1 is one of them)
InitCircuits16 ==
    /\ Idle21 /\ Idle14 /\ Idle10 /\ Idle17 /\ Idle21w /\ Idle20 /\ Idle14r /\ Idle18 /\ Idle19 /\ Idle12 /\ Idle15
    /\ grid16 \in Circuits16(MaxCircuit16)
    /\ beams \in { {start} : start \in possible_starts(grid16) }
    /\ todo16 = beams
    /\ new_beams = {}
    /\ searched = {}
    /\ num_energised = -1
    /\ pc16 = "loop"

\* the for loop always gets to its next element and the while loop to its next test
FairSpecDay16Circuits == InitCircuits16 /\ [][Next16]_vars /\ WF_vars(Next16)

\* an iteration of the for loop expands a beam state that was not expanded before
FreshExpansion16 ==
    (pc16 = "loop" /\ todo16' # todo16 /\ todo16' \subseteq todo16) =>
        (todo16 \ todo16') \cap searched = {}

\* C21: the while loop of Day16 ends for every grid and every entry state, also when the
\* mirrors and splitters lead a beam around a closed circuit, and in every order in which
\* the set beams is iterated: beams is empty in the end, and no beam state is expanded
\* more than twice (every expansion is of a state that was not expanded before).
C21_BeamLoopTerminates ==
    /\ [][FreshExpansion16]_vars
    /\ <>(pc16 = "done" /\ beams = {})

\* the beam that enters the 2x2 circuit through the splitter at its top-left tile has
\* run around it and come back to the splitter
C21_Witness ==
    /\ pc16 = "done" /\ beams = {}
    /\ NumRows(grid16) = 2 /\ NumCols(grid16) = 2 /\ grid16[0][0] = "|"
    /\ <<<<0, -1>>, <<0, 1>>>> \in searched
    /\ <<<<0, 0>>, <<1, 0>>>> \in searched
    /\ <<<<0, 1>>, <<0, -1>>>> \in searched
    /\ Successors16(grid16, <<0, 1>>, <<0, -1>>) \subseteq searched

(***************************************************************************)
(* Day21: the quadratic fit at the end of Day21_Part2 (Day21.py:186-218)   *)
(***************************************************************************)

MaxSample21 == 19   \* the metric takes the values 0 .. MaxSample21
MaxIndex21 == 3     \* the fit is evaluated at the indices 0 .. MaxIndex21, and at 1000

\* The metric (plots reachable) at four steps one period apart; the code reads the
\* first three.  Day21_Part1's search produces them in the program; the fit is a
\* pure function of them, so they are drawn from a bounded set.
Metrics21(maxSample) == [0 .. 3 -> 0 .. maxSample]

\* The code evaluates the fit at n = (26501365 - 65)/131 = 202300.0, in floating
\* point, and truncates with int().  Every integer of magnitude below 2^53 is a
\* float64 and sums and products of such integers that stay below 2^53 are exact,
\* so for the values reached here the arithmetic is integer arithmetic and int()
\* finds nothing to cut off.  202300^2 is outside TLC's integers: the index is an
\* input of the model.
EvalIndices21 == (0 .. MaxIndex21) \cup {1000}

Init21 ==
    /\ Idle16 /\ Idle14 /\ Idle10 /\ Idle17 /\ Idle21w /\ Idle20 /\ Idle14r /\ Idle18 /\ Idle19 /\ Idle12 /\ Idle15
    /\ metric21 \in Metrics21(MaxSample21)
    /\ mod_f = <<>>
    /\ a21 = 0 /\ b21 = 0 /\ c21 = 0 /\ n21 = 0
    /\ steps21 = -1
    /\ pc21 = "sample"

\* mod_f = [num_reachable[65 + 131*i] for i in range(3)] (Day21.py:188)
Sample21 ==
    /\ Rest21
    /\ pc21 = "sample"
    /\ mod_f' = [i \in 0 .. 2 |-> metric21[i]]
    /\ pc21' = "square"
    /\ UNCHANGED <<metric21, a21, b21, c21, n21, steps21>>

\* diff = [mod_f[i+1] - mod_f[i] for i in range(len(mod_f)-1)] (Day21.py:192)
Diff21(f) == [i \in 0 .. 1 |-> f[i + 1] - f[i]]
\* diff2 = {diff[i+1] - diff[i] for i in range(len(diff)-1)} (Day21.py:194)
Diff2_21(f) == {Diff21(f)[i + 1] - Diff21(f)[i] : i \in 0 .. 0}
\* a plausible slip: the second difference itself is taken for a
CoefA21_NotHalved(f) == CHOOSE d \in Diff2_21(f) : TRUE

\* a = diff2.pop()//2 (Day21.py:198); Python's // and TLA+'s \div both round down
CoefA21(f) == (CHOOSE d \in Diff2_21(f) : TRUE) \div 2
\* linear = mod_f - squares, squares[i] = a*i**2 (Day21.py:201-203)
Linear21(f, a) == [i \in 0 .. 2 |-> f[i] - a * i * i]
\* diff = set(linear[1:] - linear[:-1]) (Day21.py:205)
LinearDiff21(f, a) == {Linear21(f, a)[i + 1] - Linear21(f, a)[i] : i \in 0 .. 1}

\* assert len(diff2) == 1; a = diff2.pop()//2 (Day21.py:192-198)
FitSquare21 ==
    /\ Rest21
    /\ pc21 = "square"
    /\ IF Cardinality(Diff2_21(mod_f)) = 1
       THEN a21' = CoefA21(mod_f) /\ pc21' = "linear"
       ELSE a21' = a21 /\ pc21' = "AssertionError"
    /\ UNCHANGED <<metric21, mod_f, b21, c21, n21, steps21>>

\* assert len(diff) == 1; b = diff.pop(); c = mod_f[0] (Day21.py:201-211)
FitLinear21 ==
    /\ Rest21
    /\ pc21 = "linear"
    /\ IF Cardinality(LinearDiff21(mod_f, a21)) = 1
       THEN /\ b21' = (CHOOSE d \in LinearDiff21(mod_f, a21) : TRUE)
            /\ c21' = mod_f[0]
            /\ pc21' = "evaluate"
       ELSE /\ b21' = b21 /\ c21' = c21
            /\ pc21' = "AssertionError"
    /\ UNCHANGED <<metric21, mod_f, a21, n21, steps21>>

\* int(a*n**2 + b*n + c) (Day21.py:216)
Quadratic21(a, b, c, n) == a * n * n + b * n + c

\* n = (26501365 - 65)/131; steps = int(a*n**2 + b*n + c); return steps
\* (Day21.py:214-218)
Evaluate21 ==
    /\ Rest21
    /\ pc21 = "evaluate"
    /\ \E n \in EvalIndices21 :
         /\ n21' = n
         /\ steps21' = Quadratic21(a21, b21, c21, n)
    /\ pc21' = "done"
    /\ UNCHANGED <<metric21, mod_f, a21, b21, c21>>

Next21 == Sample21 \/ FitSquare21 \/ FitLinear21 \/ Evaluate21

SpecDay21Fit == Init21 /\ [][Next21]_vars

MaxCoef21 == 3      \* C8 ranges over quadratics with a, b in -MaxCoef21 .. MaxCoef21

\* f(0), f(1), f(2) of f(n) = A*n^2 + B*n + C
QuadraticSamples21(A, B, C) == [i \in 0 .. 2 |-> A * i * i + B * i + C]

\* C8: when the three samples are f(0), f(1), f(2) of a quadratic
\* f(n) = A*n^2 + B*n + C with integer coefficients, no assertion fails, the fit
\* finds a = A, b = B and c = C, and the value returned for index n is f(n).
C8_FitRecoversQuadratic ==
    pc21 # "sample" =>
      \A C \in 0 .. MaxSample21 : (mod_f[0] = C) =>
        \A A \in -MaxCoef21 .. MaxCoef21 : \A B \in -MaxCoef21 .. MaxCoef21 :
          (mod_f[1] = A + B + C /\ mod_f[2] = 4 * A + 2 * B + C) =>
            /\ pc21 # "AssertionError"
            /\ pc21 \in {"linear", "evaluate", "done"} => a21 = A
            /\ pc21 \in {"evaluate", "done"} => (b21 = B /\ c21 = C)
            /\ pc21 = "done" => steps21 = A * n21 * n21 + B * n21 + C

\* C8's case: the samples 5, 10, 19 of 2n^2 + 3n + 5 gave a = 2, b = 3, c = 5 and
\* f(1000) = 2003005
C8_Witness ==
    /\ pc21 = "done"
    /\ mod_f = QuadraticSamples21(2, 3, 5)
    /\ a21 = 2 /\ b21 = 3 /\ c21 = 5
    /\ n21 = 1000 /\ steps21 = 2003005

\* the second difference of the metric is the same at both places the four
\* period-spaced values show it
ConstantSecondDifference21(m) ==
    (m[2] - m[1]) - (m[1] - m[0]) = (m[3] - m[2]) - (m[2] - m[1])

MaxCells14 == 9     \* layouts of R x C cells with R * C <= MaxCells14
MaxRocks14 == 3     \* at most this many rocks ('O' or '#') in a layout
MaxExtra14 == 4     \* the reference simulation runs this many cycles past the match

TARGET14 == 1000000000

\* get_input: the rectangular layouts
Layouts14(maxCells, maxRocks) ==
    UNION { { Tabulate(sh[1], LAMBDA r : Tabulate(sh[2], LAMBDA c :
                 IF <<r, c>> \in D THEN f[<<r, c>>] ELSE ".")) : f \in [D -> {"O", "#"}] }
            : <<sh, D>> \in UNION { {sh} \X SubsetsUpTo((1 .. sh[1]) \X (1 .. sh[2]), maxRocks)
                                    : sh \in { x \in (1 .. maxCells) \X (1 .. maxCells) :
                                                x[1] * x[2] <= maxCells } } }

\* q[::-1]
Reverse(q) == Tabulate(Len(q), LAMBDA i : q[Len(q) + 1 - i])

\* the 2D list roll_rocks works on, the tilt direction at the end of each line
\* (Day14.py:73-80)
Orient(rks, direction) ==
    LET R == Len(rks)
        C == Len(rks[1])
        rev == Reverse(rks)
    IN  CASE direction = "N" ->
                Tabulate(C, LAMBDA col : Tabulate(R, LAMBDA j : rev[j][col]))
          [] direction = "S" ->
                Tabulate(C, LAMBDA i : Tabulate(R, LAMBDA j : rks[j][C + 1 - i]))
          [] direction = "W" -> Tabulate(R, LAMBDA l : Reverse(rks[l]))
          [] direction = "E" -> rks

\* list.index(x, start), or len(list) when x is not found (Day14.py:90-100);
\* positions count from 1 here, so "not found" is Len(line) + 1
IndexFrom(line, x, start) ==
    IF \E i \in start .. Len(line) : line[i] = x
    THEN CHOOSE i \in start .. Len(line) :
            line[i] = x /\ \A j \in start .. i - 1 : line[j] # x
    ELSE Len(line) + 1

Min2(x, y) == IF x <= y THEN x ELSE y

\* a plausible slip: only the next cube-shaped rock stops a rolling rock
RollOne_IgnoreRound(line, col) ==
    IF line[col] = "O"
    THEN LET next_cube == IndexFrom(line, "#", col)
             cleared == [line EXCEPT ![col] = "."]
         IN  [cleared EXCEPT ![next_cube - 1] = "O"]
    ELSE line

\* the body of `for col in range(len(rocks[row]) - 1)[::-1]` for one column
\* (Day14.py:88-105)
RollOne(line, col) ==
    IF line[col] = "O"
    THEN LET next_cube == IndexFrom(line, "#", col)
             next_round == IndexFrom(line, "O", col + 1)
             cleared == [line EXCEPT ![col] = "."]
         IN  [cleared EXCEPT ![Min2(next_cube, next_round) - 1] = "O"]
    ELSE line

\* the columns len-2 .. 0 of one line, from the right (Day14.py:86); here col .. 1
RECURSIVE RollLine(_, _)
RollLine(line, col) ==
    IF col < 1 THEN line ELSE RollLine(RollOne(line, col), col - 1)

\* back to a tuple of rows (Day14.py:108-115)
Restore(lines, direction) ==
    LET n == Len(lines)
        m == Len(lines[1])
        rev == Reverse(lines)
    IN  CASE direction = "N" ->
                Tabulate(m, LAMBDA i : Tabulate(n, LAMBDA c : lines[c][m + 1 - i]))
          [] direction = "S" ->
                Tabulate(m, LAMBDA i : Tabulate(n, LAMBDA c : rev[c][i]))
          [] direction = "W" -> Tabulate(n, LAMBDA l : Reverse(lines[l]))
          [] direction = "E" -> lines

\* roll_rocks(rocks, direction) (Day14.py:51-117)
roll_rocks(rks, direction) ==
    LET lines == Orient(rks, direction)
        rolled == Tabulate(Len(lines), LAMBDA l : RollLine(lines[l], Len(lines[l]) - 1))
    IN  Restore(rolled, direction)

\* cycle_rocks(rocks): tilts N, W, S, E (Day14.py:175-199)
cycle_rocks(rks) ==
    roll_rocks(roll_rocks(roll_rocks(roll_rocks(rks, "N"), "W"), "S"), "E")

CountO(row) == Cardinality({c \in 1 .. Len(row) : row[c] = "O"})

RECURSIVE SumLoad(_, _)
SumLoad(rev, n) ==
    IF n > Len(rev) THEN 0 ELSE n * CountO(rev[n]) + SumLoad(rev, n + 1)

\* rock_load(rocks) (Day14.py:119-140)
rock_load(rks) == SumLoad(Reverse(rks), 1)

Init14 ==
    /\ Idle16 /\ Idle21 /\ Idle10 /\ Idle17 /\ Idle21w /\ Idle20 /\ Idle14r /\ Idle18 /\ Idle19 /\ Idle12 /\ Idle15
    /\ rocks \in Layouts14(MaxCells14, MaxRocks14)
    /\ cycles = 0
    /\ rock_dict = <<>>
    /\ repeat = -1
    /\ loop_length = -1
    /\ final_layout = <<>>
    /\ load14 = -1
    /\ pc14 = "loop"
    /\ sim_rocks = rocks
    /\ sim_cycles = 0

\* rock_dict.values()
Values14(d) == {d[k] : k \in DOMAIN d}

\* one pass of the while loop (Day14.py:233-239)
Cycle14 ==
    /\ Rest14
    /\ pc14 = "loop"
    /\ rocks \notin Values14(rock_dict)
    /\ rock_dict' = (cycles :> rocks) @@ rock_dict
    /\ rocks' = cycle_rocks(rocks)
    /\ cycles' = cycles + 1
    /\ sim_rocks' = rocks'
    /\ sim_cycles' = cycles'
    /\ UNCHANGED <<repeat, loop_length, final_layout, load14, pc14>>

\* a plausible slip: the loop is taken to start at the initial layout
RepeatIndex_Zero(d, rks) == 0

\* list(rock_dict.keys())[list(rock_dict.values()).index(rocks)] (Day14.py:244):
\* the key of the first entry, in insertion order, that holds the layout; the keys
\* were inserted in the order 0, 1, 2, ...
RepeatIndex(d, rks) ==
    CHOOSE k \in DOMAIN d : d[k] = rks /\ \A j \in DOMAIN d : j < k => d[j] # rks

\* the loop ends on a layout seen before (Day14.py:233, 244-248)
Match14 ==
    /\ Rest14
    /\ pc14 = "loop"
    /\ rocks \in Values14(rock_dict)
    /\ repeat' = RepeatIndex(rock_dict, rocks)
    /\ loop_length' = cycles - repeat'
    /\ pc14' = "matched"
    /\ UNCHANGED <<rocks, cycles, rock_dict, final_layout, load14, sim_rocks, sim_cycles>>

\* a plausible slip: the offset is not added back
Projected_NoOffset(d, rep, len, N) == d[(N - rep) % len]

\* rock_dict[(N - repeat) % loop_length + repeat] (Day14.py:250-252); Python's %
\* and TLA+'s % agree for a positive modulus
Projected(d, rep, len, N) == d[((N - rep) % len) + rep]

\* the layout for 1000000000 cycles and its load (Day14.py:250-256)
Finish14 ==
    /\ Rest14
    /\ pc14 = "matched"
    /\ final_layout' = Projected(rock_dict, repeat, loop_length, TARGET14)
    /\ load14' = rock_load(final_layout')
    /\ pc14' = "done"
    /\ UNCHANGED <<rocks, cycles, rock_dict, repeat, loop_length, sim_rocks, sim_cycles>>

\* the reference: the simulation simply goes on, one cycle at a time
Simulate14 ==
    /\ Rest14
    /\ pc14 = "done"
    /\ sim_cycles < cycles + MaxExtra14
    /\ sim_rocks' = cycle_rocks(sim_rocks)
    /\ sim_cycles' = sim_cycles + 1
    /\ UNCHANGED <<rocks, cycles, rock_dict, repeat, loop_length, final_layout, load14, pc14>>

Next14 == Cycle14 \/ Match14 \/ Finish14 \/ Simulate14

SpecDay14 == Init14 /\ [][Next14]_vars

\* C2: once the repeat is found, the layout the projection picks for a step
\* N >= repeat, rock_dict[repeat + (N - repeat) mod loop_length], is the layout
\* that N applications of cycle_rocks to the initial layout produce; and the layout
\* picked for N = 1000000000 is the simulated layout of every step that has the
\* same remainder.
C2_ProjectionEqualsSimulation ==
    (pc14 \in {"matched", "done"} /\ sim_cycles >= repeat) =>
        /\ Projected(rock_dict, repeat, loop_length, sim_cycles) = sim_rocks
        /\ (pc14 = "done" /\
              (sim_cycles - repeat) % loop_length = (TARGET14 - repeat) % loop_length)
                => final_layout = sim_rocks

\* C2's case: offset 1, period 3, and the simulation has run to step
\* repeat + 2*loop_length + 1, whose layout is the recorded one of step repeat + 1
C2_Witness ==
    /\ pc14 = "done"
    /\ repeat = 1 /\ loop_length = 3
    /\ sim_cycles = repeat + 2 * loop_length + 1
    /\ sim_rocks = rock_dict[repeat + 1]
    /\ sim_rocks # rock_dict[repeat]

\* C3: when the loop has ended, the recorded layouts of steps 0 .. cycles-1 are
\* pairwise different (no earlier pair of equal layouts), the current layout (step
\* cycles) equals the one of step repeat, and every later step N whose simulated
\* layout equals a recorded step o has o >= repeat and N - o >= loop_length: repeat
\* is the smallest offset and loop_length the smallest period.
C3_SmallestOffsetAndPeriod ==
    (pc14 \in {"matched", "done"}) =>
        /\ loop_length = cycles - repeat
        /\ loop_length > 0 /\ repeat >= 0
        /\ DOMAIN rock_dict = 0 .. cycles - 1
        /\ \A i, j \in DOMAIN rock_dict : rock_dict[i] = rock_dict[j] => i = j
        /\ rocks = rock_dict[repeat]
        /\ \A o \in DOMAIN rock_dict :
              (sim_rocks = rock_dict[o]) =>
                  (o >= repeat /\ sim_cycles - o >= loop_length
                     /\ (sim_cycles - o) % loop_length = 0)

\* C3's case: the loop has ended on a repeat that is not the initial layout and
\* whose period is more than one cycle
C3_Witness ==
    /\ pc14 = "matched"
    /\ repeat = 1 /\ loop_length = 3
    /\ cycles = 4

(***************************************************************************)
(* Day10: pipe loop (Day10_Part1 and Day10_Part2)                          *)
(*                                                                         *)
(* Tiles are one-character strings.  The box-drawing characters that       *)
(* Day10_Part2 writes over the traced loop are written here as "B|", "B-", *)
(* "BL", "BJ", "B7" and "BF" (for the vertical bar, the horizontal bar and *)
(* the four corners that replace '|', '-', 'L', 'J', '7' and 'F').         *)
(***************************************************************************)

MaxSide10 == 3      \* rectangular loops of 2 .. MaxSide10 tiles per side
MaxMargin10 == 1    \* 0 .. MaxMargin10 rows/columns of other tiles on each side of the loop

\* Day10.py:58
DIRECTIONS10 == << <<-1, 0>>, <<0, 1>>, <<1, 0>>, <<0, -1>> >>

\* Day10.py:60-61
PIPE_DIRS ==
    [t \in {"|", "-", "L", "J", "7", "F"} |->
        CASE t = "|" -> << <<-1, 0>>, <<1, 0>> >>
          [] t = "-" -> << <<0, 1>>, <<0, -1>> >>
          [] t = "L" -> << <<-1, 0>>, <<0, 1>> >>
          [] t = "J" -> << <<-1, 0>>, <<0, -1>> >>
          [] t = "7" -> << <<1, 0>>, <<0, -1>> >>
          [] t = "F" -> << <<1, 0>>, <<0, 1>> >>]

\* the tile of a rectangular loop whose top-left corner is (top, left), at a cell of the loop
RingTile(top, left, h, w, r, c) ==
    CASE r = top /\ c = left                 -> "F"
      [] r = top /\ c = left + w - 1         -> "7"
      [] r = top + h - 1 /\ c = left         -> "L"
      [] r = top + h - 1 /\ c = left + w - 1 -> "J"
      [] r = top \/ r = top + h - 1          -> "-"
      [] OTHER                               -> "|"

\* the cells of that loop
RingCells(top, left, h, w) ==
    { p \in (top .. top + h - 1) \X (left .. left + w - 1) :
        p[1] \in {top, top + h - 1} \/ p[2] \in {left, left + w - 1} }

\* the cells strictly inside that loop
RingInterior(top, left, h, w) ==
    (top + 1 .. top + h - 2) \X (left + 1 .. left + w - 2)

\* a stray pipe of kind t at cell p is joined to the cell q
JoinsTo(p, t, q) == \E i \in 1 .. 2 : add_tuple(p, PIPE_DIRS[t][i]) = q

\* The puzzle inputs: a grid that holds one rectangular loop through S, ground, and at most
\* one stray pipe that is not part of the loop and is not joined to S.  The record keeps
\* the grid as the file gives it, and where the loop lies in it.
Inputs10(maxSide, maxMargin) ==
    UNION UNION { { { [ rows |-> m[1] + hw[1] + m[3], cols |-> m[2] + hw[2] + m[4],
                        top |-> m[1], left |-> m[2], h |-> hw[1], w |-> hw[2],
                        S |-> s, stray |-> y ]
                      : y \in {<<>>} \cup
                              { <<q, t>> \in (((0 .. m[1] + hw[1] + m[3] - 1)
                                              \X (0 .. m[2] + hw[2] + m[4] - 1))
                                              \ RingCells(m[1], m[2], hw[1], hw[2]))
                                             \X DOMAIN PIPE_DIRS :
                                  ~JoinsTo(q, t, s) } }
                    : s \in RingCells(m[1], m[2], hw[1], hw[2]) }
                  : <<hw, m>> \in ((2 .. maxSide) \X (2 .. maxSide))
                                  \X ((0 .. maxMargin) \X (0 .. maxMargin)
                                      \X (0 .. maxMargin) \X (0 .. maxMargin)) }

\* the tile the input file holds at row r, column c
FileTile(in, r, c) ==
    CASE <<r, c>> = in.S -> "S"
      [] <<r, c>> \in RingCells(in.top, in.left, in.h, in.w) ->
            RingTile(in.top, in.left, in.h, in.w, r, c)
      [] in.stray # <<>> /\ in.stray[1] = <<r, c>> -> in.stray[2]
      [] OTHER -> "."

\* get_input: the grid of the file, with one row and one column of '.' added on every side
\* when pad is set
get_input10(in, pad) ==
    IF pad
    THEN [r \in 0 .. in.rows + 1 |-> [c \in 0 .. in.cols + 1 |->
            IF r \in 1 .. in.rows /\ c \in 1 .. in.cols
            THEN FileTile(in, r - 1, c - 1) ELSE "."]]
    ELSE [r \in 0 .. in.rows - 1 |-> [c \in 0 .. in.cols - 1 |-> FileTile(in, r, c)]]

\* numpy's index rule for one axis of length n: -n .. -1 count from the end, anything
\* outside -n .. n-1 raises IndexError
InRange10(i, n) == -n <= i /\ i < n
Wrap10(i, n) == IF i < 0 THEN i + n ELSE i
Readable10(g, p) == InRange10(p[1], NumRows(g)) /\ InRange10(p[2], NumCols(g))
At10(g, p) == g[Wrap10(p[1], NumRows(g))][Wrap10(p[2], NumCols(g))]

\* np.where(pipes == 'S'), first hit in row-major order
FindS(g) ==
    CHOOSE p \in Cells(NumRows(g), NumCols(g)) :
        /\ g[p[1]][p[2]] = "S"
        /\ \A q \in Cells(NumRows(g), NumCols(g)) :
              g[q[1]][q[2]] = "S" => (p[1] < q[1] \/ (p[1] = q[1] /\ p[2] <= q[2]))

\* the for loop over DIRECTIONS from its i-th direction on: <<"break", i>> when it breaks
\* at the i-th direction, <<"end", 4>> when it runs to its end without a break (next_dir
\* and next_pos keep the values of the last direction), <<"IndexError", i>> when the
\* probe in the i-th direction is off the grid
RECURSIVE Probe(_, _, _)
Probe(g, sp, i) ==
    LET np == add_tuple(sp, DIRECTIONS10[i])
    IN  IF ~Readable10(g, np) THEN <<"IndexError", i>>
        ELSE IF /\ At10(g, np) \in DOMAIN PIPE_DIRS
                /\ \E k \in 1 .. 2 : add_tuple(np, PIPE_DIRS[At10(g, np)][k]) = sp
             THEN <<"break", i>>
             ELSE IF i = 4 THEN <<"end", 4>> ELSE Probe(g, sp, i + 1)

Init10 ==
    /\ Idle16 /\ Idle21 /\ Idle14 /\ Idle17 /\ Idle21w /\ Idle20 /\ Idle14r /\ Idle18 /\ Idle19 /\ Idle12 /\ Idle15
    /\ input10 \in Inputs10(MaxSide10, MaxMargin10)
    /\ part10 \in {1, 2}
    /\ pipes = get_input10(input10, part10 = 2)
    /\ start_point = <<>> /\ loop10 = <<>> /\ next_dir = <<>> /\ next_pos = <<>>
    /\ pos10 = <<>> /\ inside = 0 /\ row_type = 0 /\ enclosed_tiles = 0
    /\ furthest_point = 0
    /\ pc10 = "start"

\* Day10.py:101-113 and 173-185: find S and the direction to leave it in
Start10 ==
    /\ pc10 = "start"
    /\ LET sp == FindS(pipes)
           found == Probe(pipes, sp, 1)
       IN  /\ start_point' = sp
           /\ loop10' = <<sp>>
           /\ IF found[1] = "IndexError"
              THEN /\ pc10' = "IndexError"
                   /\ UNCHANGED <<next_dir, next_pos>>
              ELSE /\ next_dir' = DIRECTIONS10[found[2]]
                   /\ next_pos' = add_tuple(sp, DIRECTIONS10[found[2]])
                   /\ pc10' = "trace"
    /\ UNCHANGED <<input10, part10, pipes, pos10, inside, row_type, enclosed_tiles,
                   furthest_point>>
    /\ Rest10

\* the box-drawing character that replaces a pipe character (Day10.py:198-199)
BoxChar(t) ==
    CASE t = "|" -> "B|" [] t = "-" -> "B-" [] t = "L" -> "BL"
      [] t = "J" -> "BJ" [] t = "7" -> "B7" [] t = "F" -> "BF"
      [] OTHER -> t

\* one iteration of the while loop that follows the pipes (Day10.py:116-128, 188-205)
Trace10 ==
    /\ pc10 = "trace"
    /\ next_pos # loop10[1]
    /\ loop10' = Append(loop10, next_pos)
    /\ LET last_dir == <<-next_dir[1], -next_dir[2]>>
       IN  IF ~Readable10(pipes, next_pos)
           THEN /\ pc10' = "IndexError"
                /\ UNCHANGED <<pipes, next_dir, next_pos>>
           ELSE IF At10(pipes, next_pos) \notin DOMAIN PIPE_DIRS
           THEN /\ pc10' = "KeyError"
                /\ UNCHANGED <<pipes, next_dir, next_pos>>
           ELSE LET possible_dirs == PIPE_DIRS[At10(pipes, next_pos)]
                    r == Wrap10(next_pos[1], NumRows(pipes))
                    c == Wrap10(next_pos[2], NumCols(pipes))
                IN  /\ pipes' = IF part10 = 2
                                THEN [pipes EXCEPT ![r][c] = BoxChar(@)]
                                ELSE pipes
                    /\ IF \A k \in 1 .. 2 : possible_dirs[k] # last_dir
                       THEN /\ pc10' = "ValueError"
                            /\ UNCHANGED <<next_dir, next_pos>>
                       ELSE LET last_dir_loc == CHOOSE k \in 1 .. 2 :
                                                    /\ possible_dirs[k] = last_dir
                                                    /\ \A j \in 1 .. k - 1 :
                                                          possible_dirs[j] # last_dir
                                nd == possible_dirs[3 - last_dir_loc]
                            IN  /\ next_dir' = nd
                                /\ next_pos' = add_tuple(next_pos, nd)
                                /\ pc10' = "trace"
    /\ UNCHANGED <<input10, part10, start_point, pos10, inside, row_type, enclosed_tiles,
                   furthest_point>>
    /\ Rest10

\* Day10.py:131-133: Day10_Part1 returns half the length of the traced loop
HalfLength10 ==
    /\ pc10 = "trace" /\ part10 = 1
    /\ next_pos = loop10[1]
    /\ furthest_point' = Len(loop10) \div 2
    /\ pc10' = "done"
    /\ UNCHANGED <<input10, part10, pipes, start_point, loop10, next_dir, next_pos, pos10,
                   inside, row_type, enclosed_tiles>>
    /\ Rest10

\* Day10.py:210-214: the sweep starts in the top left corner, outside the loop
BeginSweep10 ==
    /\ pc10 = "trace" /\ part10 = 2
    /\ next_pos = loop10[1]
    /\ pos10' = <<0, 0>>
    /\ inside' = 0 /\ row_type' = 0
    /\ enclosed_tiles' = 0
    /\ pc10' = "sweep"
    /\ UNCHANGED <<input10, part10, pipes, start_point, loop10, next_dir, next_pos,
                   furthest_point>>
    /\ Rest10

\* a plausible slip: every closing corner taken as a crossing, whatever corner opened the
\* run of horizontal pipe it closes
SweepTile10_AnyCorner ==
    /\ pc10 = "sweep"
    /\ pos10[1] < NumRows(pipes) /\ pos10[2] < NumCols(pipes)
    /\ LET t == pipes[pos10[1]][pos10[2]]
           flip == (inside + 1) % 2
       IN  IF t \in {".", "|", "-", "L", "7", "J", "F"} /\ inside # 0
           THEN /\ enclosed_tiles' = enclosed_tiles + 1
                /\ UNCHANGED <<inside, row_type>>
           ELSE /\ UNCHANGED enclosed_tiles
                /\ CASE t = "B|" -> inside' = flip /\ UNCHANGED row_type
                     [] t = "BF" -> row_type' = -1 /\ UNCHANGED inside
                     [] t = "BL" -> row_type' = 1 /\ UNCHANGED inside
                     [] t = "B7" -> inside' = flip /\ row_type' = 0
                     [] t = "BJ" -> inside' = flip /\ row_type' = 0
                     [] OTHER -> UNCHANGED <<inside, row_type>>
    /\ pos10' = add_tuple(pos10, <<0, 1>>)
    /\ UNCHANGED <<input10, part10, pipes, start_point, loop10, next_dir, next_pos,
                   furthest_point, pc10>>
    /\ Rest10

\* one iteration of the inner while loop: the tile at pos (Day10.py:218-262)
SweepTile10 ==
    /\ pc10 = "sweep"
    /\ pos10[1] < NumRows(pipes) /\ pos10[2] < NumCols(pipes)
    /\ LET t == pipes[pos10[1]][pos10[2]]
           flip == (inside + 1) % 2
       IN  IF t \in {".", "|", "-", "L", "7", "J", "F"} /\ inside # 0
           THEN /\ enclosed_tiles' = enclosed_tiles + 1
                /\ UNCHANGED <<inside, row_type>>
           ELSE /\ UNCHANGED enclosed_tiles
                /\ CASE t = "B|" -> inside' = flip /\ UNCHANGED row_type
                     [] t = "BF" -> row_type' = -1 /\ UNCHANGED inside
                     [] t = "BL" -> row_type' = 1 /\ UNCHANGED inside
                     [] t = "B7" -> /\ inside' = IF row_type = 1 THEN flip ELSE inside
                                    /\ row_type' = 0
                     [] t = "BJ" -> /\ inside' = IF row_type = -1 THEN flip ELSE inside
                                    /\ row_type' = 0
                     [] OTHER -> UNCHANGED <<inside, row_type>>
    /\ pos10' = add_tuple(pos10, <<0, 1>>)
    /\ UNCHANGED <<input10, part10, pipes, start_point, loop10, next_dir, next_pos,
                   furthest_point, pc10>>
    /\ Rest10

\* Day10.py:263: the end of a row
SweepNextRow10 ==
    /\ pc10 = "sweep"
    /\ pos10[1] < NumRows(pipes) /\ pos10[2] >= NumCols(pipes)
    /\ pos10' = <<pos10[1] + 1, 0>>
    /\ UNCHANGED <<input10, part10, pipes, start_point, loop10, next_dir, next_pos,
                   inside, row_type, enclosed_tiles, furthest_point, pc10>>
    /\ Rest10

\* Day10.py:264: Day10_Part2 returns enclosed_tiles
Return10 ==
    /\ pc10 = "sweep"
    /\ pos10[1] >= NumRows(pipes)
    /\ pc10' = "done"
    /\ UNCHANGED <<input10, part10, pipes, start_point, loop10, next_dir, next_pos, pos10,
                   inside, row_type, enclosed_tiles, furthest_point>>
    /\ Rest10

Next10 ==
    \/ Start10
    \/ Trace10
    \/ HalfLength10
    \/ BeginSweep10
    \/ SweepTile10
    \/ SweepNextRow10
    \/ Return10

SpecDay10 == Init10 /\ [][Next10]_vars

\* the cells of the input's loop, in the coordinates of the grid the function works on
LoopTiles10 ==
    LET d == IF part10 = 2 THEN 1 ELSE 0
    IN  { add_tuple(p, <<d, d>>) : p \in RingCells(input10.top, input10.left,
                                                   input10.h, input10.w) }

\* the number of tiles strictly inside the input's loop
InsideCount10 ==
    Cardinality(RingInterior(input10.top, input10.left, input10.h, input10.w))

\* C4: for a grid that holds a single rectangular loop of width w and height h (both at
\* least 3) and nothing else but ground, Day10_Part2 returns (w-2)*(h-2), wherever on the
\* loop S is placed.
C4_RectangleEnclosesInterior ==
    (part10 = 2 /\ pc10 = "done" /\ input10.stray = <<>> /\ input10.h >= 3 /\ input10.w >= 3)
        => enclosed_tiles = (input10.w - 2) * (input10.h - 2)

\* C5: for every grid with one simple closed loop through S, ground and stray pipes,
\* Day10_Part2 returns the number of tiles that are off the loop and strictly inside it.
C5_CountsTilesStrictlyInside ==
    (part10 = 2 /\ pc10 = "done") => enclosed_tiles = InsideCount10

\* C6: Day10_Part1 traces every tile of the loop exactly once, starting at S, and returns
\* half the number of tiles of the loop, rounded down.
C6_TraceVisitsLoopOnce ==
    (part10 = 1 /\ pc10 \notin {"start", "trace"}) =>
        /\ pc10 = "done"
        /\ loop10[1] = input10.S
        /\ Len(loop10) = Cardinality(LoopTiles10)
        /\ {loop10[i] : i \in 1 .. Len(loop10)} = LoopTiles10
        /\ furthest_point = Cardinality(LoopTiles10) \div 2

\* a position outside the extents of the grid
OffGrid10(g, p) ==
    p[1] < 0 \/ p[2] < 0 \/ p[1] >= NumRows(g) \/ p[2] >= NumCols(g)

\* C11: every lookup at a position outside the grid fails with an out-of-bounds error and
\* yields no cell value; in particular each probe of a neighbour of S that Day10_Part1
\* makes at an off-grid position fails instead of reading another cell of the grid.
C11_OffGridLookupFails ==
    (part10 = 1 /\ pc10 # "start") =>
        \A i \in 1 .. Probe(pipes, start_point, 1)[2] :
            OffGrid10(pipes, add_tuple(start_point, DIRECTIONS10[i]))
                => ~Readable10(pipes, add_tuple(start_point, DIRECTIONS10[i]))

(***************************************************************************)
(* Day10_Part2 on loops of any shape.  A loop is drawn as the outline of a *)
(* set of unit squares whose corners are the cells of the grid: the square *)
(* <<r, c>> has the cells <<r, c>>, <<r, c+1>>, <<r+1, c>>, <<r+1, c+1>>   *)
(* as corners.  Every simple closed loop of pipes is the outline of the    *)
(* squares it encloses.                                                    *)
(***************************************************************************)

MaxShape10 == 3     \* grids of 2 .. MaxShape10 rows and columns

\* the outline runs between the cell v and the cell to its right / below it
East10(P, v) == (<<v[1] - 1, v[2]>> \in P) # (<<v[1], v[2]>> \in P)
South10(P, v) == (<<v[1], v[2] - 1>> \in P) # (<<v[1], v[2]>> \in P)
West10(P, v) == East10(P, <<v[1], v[2] - 1>>)
North10(P, v) == South10(P, <<v[1] - 1, v[2]>>)

\* four pieces of outline meet at the cell v: no pipe character joins four neighbours
Pinch10(P, v) == North10(P, v) /\ East10(P, v) /\ South10(P, v) /\ West10(P, v)

\* the pipe character of the cell v (PIPE_DIRS, Day10.py:60-61)
OutlineTile(P, v) ==
    CASE North10(P, v) /\ South10(P, v) -> "|"
      [] East10(P, v) /\ West10(P, v)   -> "-"
      [] North10(P, v) /\ East10(P, v)  -> "L"
      [] North10(P, v) /\ West10(P, v)  -> "J"
      [] South10(P, v) /\ West10(P, v)  -> "7"
      [] South10(P, v) /\ East10(P, v)  -> "F"
      [] OTHER                          -> "."

\* The puzzle inputs: a grid of up to maxDim rows and columns that holds the outline of a
\* set of squares (one loop, or several loops that do not touch) and ground, with S in
\* the place of one of the pipes.
Shapes10(maxDim) ==
    UNION UNION { { { [ tiles |-> [r \in 0 .. hw[1] - 1 |-> [c \in 0 .. hw[2] - 1 |->
                                      IF <<r, c>> = s THEN "S" ELSE OutlineTile(P, <<r, c>>)]],
                        squares |-> P, S |-> s ]
                      : s \in { v \in Cells(hw[1], hw[2]) : OutlineTile(P, v) # "." } }
                    : P \in { Q \in SUBSET Cells(hw[1] - 1, hw[2] - 1) :
                                /\ Q # {}
                                /\ \A v \in Cells(hw[1], hw[2]) : ~Pinch10(Q, v) } }
                  : hw \in (2 .. maxDim) \X (2 .. maxDim) }

\* get_input with pad=True: one row and one column of '.' added on every side
PadGrid10(g) ==
    [r \in 0 .. NumRows(g) + 1 |-> [c \in 0 .. NumCols(g) + 1 |->
        IF r \in 1 .. NumRows(g) /\ c \in 1 .. NumCols(g) THEN g[r - 1][c - 1] ELSE "."]]

InitShapes10 ==
    /\ Idle16 /\ Idle21 /\ Idle14 /\ Idle17 /\ Idle21w /\ Idle20 /\ Idle14r /\ Idle18 /\ Idle19 /\ Idle12 /\ Idle15
    /\ input10 \in Shapes10(MaxShape10)
    /\ part10 = 2
    /\ pipes = PadGrid10(input10.tiles)
    /\ start_point = <<>> /\ loop10 = <<>> /\ next_dir = <<>> /\ next_pos = <<>>
    /\ pos10 = <<>> /\ inside = 0 /\ row_type = 0 /\ enclosed_tiles = 0
    /\ furthest_point = 0
    /\ pc10 = "start"

\* Day10_Part2 from its first line to its return
NextShapes10 ==
    \/ Start10
    \/ Trace10
    \/ BeginSweep10
    \/ SweepTile10
    \/ SweepNextRow10
    \/ Return10

SpecDay10Shapes == InitShapes10 /\ [][NextShapes10]_vars

\* the corners of the traced loop that open a run of horizontal pipe to their right, and
\* those that close one
OpeningCorners10 == {"BF", "BL"}
ClosingCorners10 == {"B7", "BJ"}

\* the most recent unresolved opening corner on row r to the left of column c: the last
\* corner of the traced loop before column c, when it is an opening corner
OpenCorner10(g, r, c) ==
    LET corners == { j \in 0 .. c - 1 : g[r][j] \in OpeningCorners10 \cup ClosingCorners10 }
    IN  IF corners = {} THEN "none"
        ELSE LET last == CHOOSE j \in corners : \A k \in corners : k <= j
             IN  IF g[r][last] \in OpeningCorners10 THEN g[r][last] ELSE "none"

\* the sweep passes one tile: the flag flips exactly at the three kinds of crossing, and
\* row_type is 0 after a closing corner
SweepFlips10 ==
    (pc10 = "sweep" /\ pos10' = add_tuple(pos10, <<0, 1>>)) =>
        LET t == pipes[pos10[1]][pos10[2]]
            open == OpenCorner10(pipes, pos10[1], pos10[2])
        IN  /\ inside \in {0, 1} /\ inside' \in {0, 1}
            /\ (inside' # inside) <=>
                  \/ t = "B|"
                  \/ t = "B7" /\ open = "BL"
                  \/ t = "BJ" /\ open = "BF"
            /\ t \in ClosingCorners10 => row_type' = 0

\* C20: during the sweep of Day10_Part2 the inside flag flips exactly at a tile of the
\* traced loop that is a vertical bar, at a south-west corner whose most recent unresolved
\* opening corner on the row is a north-east corner, and at a north-west corner whose most
\* recent unresolved opening corner is a south-east corner; it flips at no other tile
\* (horizontal bars, corners that close a run opened from the same side, corners that
\* open a run), and row_type is 0 after every closing corner.
C20_FlipsAtCrossingsOnly == [][SweepFlips10]_vars

C20_Witness ==
    /\ pc10 = "sweep" /\ pos10[1] < NumRows(pipes) /\ pos10[2] >= 1
    /\ pipes[pos10[1]][pos10[2] - 1] = "B7"
    /\ OpenCorner10(pipes, pos10[1], pos10[2] - 1) = "BL"
    /\ \E j \in 0 .. pos10[2] - 1 : pipes[pos10[1]][j] = "B|"
    /\ inside = 0 /\ row_type = 0
    /\ \E r \in 0 .. pos10[1] - 1 : \E j \in 1 .. NumCols(pipes) - 1 :
          pipes[r][j] = "B7" /\ OpenCorner10(pipes, r, j) = "BF"

(***************************************************************************)
(* Day17: constrained shortest path (Day17_Part1 and Day17_Part2)          *)
(*                                                                         *)
(* A search state is <<pos, last_dir, num_straight>>, a heap entry is      *)
(* <<heat loss, state>>.                                                   *)
(***************************************************************************)

MaxRows17 == 5      \* grids of up to MaxRows17 rows
MaxCols17 == 5      \* and up to MaxCols17 columns
MaxCorridor17 == 12 \* and corridors of one or two rows and up to MaxCorridor17 columns

MaxStraight1 == 3   \* Day17.py:116
MinStraight2 == 4   \* Day17.py:191, 228
MaxStraight2 == 10  \* Day17.py:199

\* Day17.py:71
DIRECTIONS17 == {<<0, 1>>, <<0, -1>>, <<1, 0>>, <<-1, 0>>}

\* get_input: a rectangular grid of digits; here every cell holds 1, except for at most one
\* cell that holds 0 or 9
Grids17(maxRows, maxCols) ==
    UNION { { [r \in 0 .. R - 1 |-> [c \in 0 .. C - 1 |-> 1]] }
            \cup { [r \in 0 .. R - 1 |-> [c \in 0 .. C - 1 |->
                        IF <<r, c>> = p THEN v ELSE 1]]
                   : <<p, v>> \in Cells(R, C) \X {0, 9} }
            : <<R, C>> \in (1 .. maxRows) \X (1 .. maxCols) }

\* get_input: the same kind of grid, of one or two rows and maxCols - 1 or maxCols
\* columns: long enough for a run of MaxStraight2 moves
Corridors17(maxCols) ==
    UNION { { [r \in 0 .. R - 1 |-> [c \in 0 .. C - 1 |-> 1]] }
            \cup { [r \in 0 .. R - 1 |-> [c \in 0 .. C - 1 |->
                        IF <<r, c>> = p THEN v ELSE 1]]
                   : <<p, v>> \in Cells(R, C) \X {0, 9} }
            : <<R, C>> \in (1 .. 2) \X (maxCols - 1 .. maxCols) }

Goal17(g) == <<NumRows(g) - 1, NumCols(g) - 1>>

\* Python's order on tuples, for two tuples of integers of the same length
RECURSIVE TupleLess(_, _)
TupleLess(a, b) ==
    /\ a # <<>>
    /\ \/ Head(a) < Head(b)
       \/ Head(a) = Head(b) /\ TupleLess(Tail(a), Tail(b))

\* a plausible slip: the heap entries are (state, hl), ordered by state before heat loss
Flat17_StateFirst(e) == <<e[2][1][1], e[2][1][2], e[2][2][1], e[2][2][2], e[2][3], e[1]>>

\* a heap entry (hl, (pos, last_dir, num_straight)) as one tuple of integers
Flat17(e) == <<e[1], e[2][1][1], e[2][1][2], e[2][2][1], e[2][2][2], e[2][3]>>

\* heappop: the entry that is least in Python's order on tuples
HeapTop_Last(q) ==
    CHOOSE e \in q : \A f \in q \ {e} : TupleLess(Flat17(f), Flat17(e))

HeapTop(q) ==
    CHOOSE e \in q : \A f \in q \ {e} : TupleLess(Flat17(e), Flat17(f))

\* a plausible slip: `>` for `>=`, one more move in a row than the maximum
possible_dirs_LongRun(part, last_dir, num_straight) ==
    LET back == <<-last_dir[1], -last_dir[2]>>
    IN  IF part = 1
        THEN (DIRECTIONS17 \ {back})
                \ (IF num_straight > MaxStraight1 THEN {last_dir} ELSE {})
        ELSE IF num_straight < MinStraight2
             THEN {last_dir}
             ELSE (DIRECTIONS17 \ {back})
                     \ (IF num_straight > MaxStraight2 THEN {last_dir} ELSE {})

\* a plausible slip: `<=` bound off by one, a turn is allowed one move early
possible_dirs_EarlyTurn(part, last_dir, num_straight) ==
    LET back == <<-last_dir[1], -last_dir[2]>>
    IN  IF part = 1
        THEN (DIRECTIONS17 \ {back})
                \ (IF num_straight >= MaxStraight1 THEN {last_dir} ELSE {})
        ELSE IF num_straight < MinStraight2 - 1
             THEN {last_dir}
             ELSE (DIRECTIONS17 \ {back})
                     \ (IF num_straight >= MaxStraight2 THEN {last_dir} ELSE {})

\* Day17.py:111-117 (Part1) and 191-200 (Part2): the directions the search may leave a
\* state in
possible_dirs(part, last_dir, num_straight) ==
    LET back == <<-last_dir[1], -last_dir[2]>>
    IN  IF part = 1
        THEN (DIRECTIONS17 \ {back})
                \ (IF num_straight >= MaxStraight1 THEN {last_dir} ELSE {})
        ELSE IF num_straight < MinStraight2
             THEN {last_dir}
             ELSE (DIRECTIONS17 \ {back})
                     \ (IF num_straight >= MaxStraight2 THEN {last_dir} ELSE {})

\* Day17.py:122-123, 206-207
InGrid17(g, p) ==
    ~(p[1] < 0 \/ p[2] < 0 \/ p[1] >= NumRows(g) \/ p[2] >= NumCols(g))

\* Day17.py:120-129, 204-213: the states the for loop reaches from a state
NewStates17(g, part, state) ==
    { <<add_tuple(state[1], d), d, IF d = state[2] THEN state[3] + 1 ELSE 1>>
      : d \in { e \in possible_dirs(part, state[2], state[3]) :
                  InGrid17(g, add_tuple(state[1], e)) } }

Init17 ==
    /\ Idle16 /\ Idle21 /\ Idle14 /\ Idle10 /\ Idle21w /\ Idle20 /\ Idle14r /\ Idle18 /\ Idle19 /\ Idle12 /\ Idle15
    /\ grid17 \in Grids17(MaxRows17, MaxCols17) \cup Corridors17(MaxCorridor17)
    /\ part17 \in {1, 2}
    /\ min_heatlosses = [st \in {<<<<0, 0>>, <<0, 1>>, 0>>, <<<<0, 0>>, <<1, 0>>, 0>>} |-> 0]
    /\ queue = {<<0, <<<<0, 0>>, <<0, 1>>, 0>>>>, <<0, <<<<0, 0>>, <<1, 0>>, 0>>>>}
    /\ min_heatloss = "unset"
    /\ pc17 = "search"
    /\ walker = "unset"

\* a plausible slip: the elif branch without its comparison, a later arrival always
\* overwrites the recorded heat loss
Pop17_Overwrite ==
    /\ pc17 = "search"
    /\ queue # {}
    /\ \E top \in {HeapTop(queue)} :
       \E new \in {NewStates17(grid17, part17, top[2])} :
       \E hl \in {min_heatlosses[top[2]]} :
          /\ min_heatlosses' =
                [ns \in DOMAIN min_heatlosses \cup new |->
                    IF ns \in new
                    THEN hl + grid17[ns[1][1]][ns[1][2]]
                    ELSE min_heatlosses[ns]]
          /\ queue' = (queue \ {top})
                         \cup { <<hl + grid17[ns[1][1]][ns[1][2]], ns>>
                                : ns \in new \ DOMAIN min_heatlosses }
    /\ UNCHANGED <<grid17, part17, min_heatloss, pc17, walker>>
    /\ Rest17

\* a plausible slip: every state reached is pushed, whether it is new or not
Pop17_PushAlways ==
    /\ pc17 = "search"
    /\ queue # {}
    /\ \E top \in {HeapTop(queue)} :
       \E new \in {NewStates17(grid17, part17, top[2])} :
       \E hl \in {min_heatlosses[top[2]]} :
          /\ min_heatlosses' =
                [ns \in DOMAIN min_heatlosses \cup new |->
                    IF ns \notin DOMAIN min_heatlosses
                    THEN hl + grid17[ns[1][1]][ns[1][2]]
                    ELSE IF ns \in new /\ hl + grid17[ns[1][1]][ns[1][2]] < min_heatlosses[ns]
                    THEN hl + grid17[ns[1][1]][ns[1][2]]
                    ELSE min_heatlosses[ns]]
          /\ queue' = (queue \ {top})
                         \cup { <<hl + grid17[ns[1][1]][ns[1][2]], ns>> : ns \in new }
    /\ UNCHANGED <<grid17, part17, min_heatloss, pc17, walker>>
    /\ Rest17

\* one iteration of `while queue` (Day17.py:106-139, 186-222): pop the least entry and
\* record, push or tighten every state that can be reached from it
Pop17 ==
    /\ pc17 = "search"
    /\ queue # {}
    /\ \E top \in {HeapTop(queue)} :
       \E new \in {NewStates17(grid17, part17, top[2])} :
       \E hl \in {min_heatlosses[top[2]]} :
          /\ min_heatlosses' =
                [ns \in DOMAIN min_heatlosses \cup new |->
                    IF ns \notin DOMAIN min_heatlosses
                    THEN hl + grid17[ns[1][1]][ns[1][2]]
                    ELSE IF ns \in new /\ hl + grid17[ns[1][1]][ns[1][2]] < min_heatlosses[ns]
                    THEN hl + grid17[ns[1][1]][ns[1][2]]
                    ELSE min_heatlosses[ns]]
          /\ queue' = (queue \ {top})
                         \cup { <<hl + grid17[ns[1][1]][ns[1][2]], ns>>
                                : ns \in new \ DOMAIN min_heatlosses }
    /\ UNCHANGED <<grid17, part17, min_heatloss, pc17, walker>>
    /\ Rest17

\* Day17.py:141-143 (Part1) and 226-228 (Part2): the heat losses recorded for the states at
\* the bottom right cell, in Part2 only those reached by at least MinStraight2 moves in a row
possible_heatloss_AnyRun(mh, g, part) ==
    { mh[st] : st \in { t \in DOMAIN mh : t[1] = Goal17(g) } }

possible_heatloss(mh, g, part) ==
    { mh[st] : st \in { t \in DOMAIN mh :
                          t[1] = Goal17(g) /\ (part = 2 => t[3] >= MinStraight2) } }

\* Day17.py:146-148, 231-233: min() of the recorded heat losses; min() of an empty list raises
\* ValueError
Return17 ==
    /\ pc17 = "search"
    /\ queue = {}
    /\ LET hls == possible_heatloss(min_heatlosses, grid17, part17)
       IN  IF hls = {}
           THEN /\ pc17' = "ValueError"
                /\ UNCHANGED min_heatloss
           ELSE /\ min_heatloss' = CHOOSE x \in hls : \A y \in hls : x <= y
                /\ pc17' = "done"
    /\ UNCHANGED <<grid17, part17, min_heatlosses, queue, walker>>
    /\ Rest17

\* Reference: once a number has been returned, a path is walked from the top-left cell.
\* The locals of the search are gone; the grid and the returned number remain.
StartWalk17 ==
    /\ pc17 = "done"
    /\ pc17' = "walk"
    /\ walker' = [pos |-> <<0, 0>>, dir |-> <<0, 0>>, run |-> 0, cost |-> 0]
    /\ min_heatlosses' = "returned" /\ queue' = "returned"
    /\ UNCHANGED <<grid17, part17, min_heatloss>>
    /\ Rest17

\* the run-length rules of the puzzle (Day17.py:78-81, 156-160): no reversal; in Part1 at
\* most MaxStraight1 moves in a row; in Part2 at least MinStraight2 moves before a turn and
\* at most MaxStraight2 in a row
MayMove17(part, w, d) ==
    \/ w.run = 0
    \/ /\ d = w.dir
       /\ w.run < (IF part = 1 THEN MaxStraight1 ELSE MaxStraight2)
    \/ /\ d # w.dir /\ d # <<-w.dir[1], -w.dir[2]>>
       /\ (part = 2 => w.run >= MinStraight2)

\* Reference: one more move of the path.  The weights are not negative, so a path that
\* costs less than the returned number never costs more than it on the way: paths are
\* walked for as long as they do not cost more than the returned number.
Walk17 ==
    /\ pc17 = "walk"
    /\ \E d \in DIRECTIONS17 :
        LET p == add_tuple(walker.pos, d)
        IN  /\ InGrid17(grid17, p)
            /\ MayMove17(part17, walker, d)
            /\ walker.cost + grid17[p[1]][p[2]] <= min_heatloss
            /\ walker' = [pos |-> p, dir |-> d,
                          run |-> IF d = walker.dir THEN walker.run + 1 ELSE 1,
                          cost |-> walker.cost + grid17[p[1]][p[2]]]
    /\ UNCHANGED <<grid17, part17, min_heatlosses, queue, min_heatloss, pc17>>
    /\ Rest17

Next17 ==
    \/ Pop17
    \/ Return17
    \/ StartWalk17
    \/ Walk17

SpecDay17 == Init17 /\ [][Next17]_vars

\* the search alone, Day17_Part1 and Day17_Part2 from their first line to their return
NextSearch17 ==
    \/ Pop17
    \/ Return17

SpecDay17Search == Init17 /\ [][NextSearch17]_vars

\* the walked path ends at the bottom-right cell and, in Part2, its last run is long enough
WalkerAtGoal17 ==
    /\ pc17 = "walk"
    /\ walker.pos = Goal17(grid17)
    /\ (part17 = 2 => walker.run >= MinStraight2)

\* C1: the number returned by Day17_Part1 and by Day17_Part2 is at most the cost of every
\* path from the top-left to the bottom-right cell that keeps the run-length rules of that
\* part, where the cost of a path is the sum of the weights of the cells it enters.
C1_ResultIsLowerBound ==
    WalkerAtGoal17 => min_heatloss <= walker.cost

C1_Witness ==
    /\ WalkerAtGoal17
    /\ part17 = 2
    /\ NumRows(grid17) = 5 /\ NumCols(grid17) = 5
    /\ grid17[0][2] = 9
    /\ walker.dir = <<0, 1>>
    /\ walker.cost = min_heatloss

\* some state at the bottom-right cell with num_straight >= MinStraight2 has been recorded
GoalRecorded17 ==
    \E st \in DOMAIN min_heatlosses : st[1] = Goal17(grid17) /\ st[3] >= MinStraight2

\* C10: when the search of Day17_Part2 empties its queue without having recorded a state at
\* the bottom-right cell with num_straight >= 4, the call ends in an error; it returns a
\* number only when such a state has been recorded.
C10_UnreachableGoalRaises ==
    (part17 = 2 /\ pc17 \in {"done", "ValueError"}) =>
        /\ ~GoalRecorded17 => pc17 = "ValueError"
        /\ pc17 = "done" => GoalRecorded17

C10_Witness ==
    /\ part17 = 2 /\ pc17 = "ValueError"
    /\ NumRows(grid17) = 2 /\ NumCols(grid17) = 5
    /\ \E st \in DOMAIN min_heatlosses : st[1] = Goal17(grid17)

\* the two states the search starts from (Day17.py:102, 181)
Seeds17 == {<<<<0, 0>>, <<0, 1>>, 0>>, <<<<0, 0>>, <<1, 0>>, 0>>}

\* the while loop is about to pop an entry
Popping17 == pc17 = "search" /\ queue # {}

\* the while loop has ended: min_heatlosses is final
Searched17 == pc17 \in {"done", "ValueError"}

MaxStraight17(part) == IF part = 1 THEN MaxStraight1 ELSE MaxStraight2

\* ns is reached from st by one move that is not a reversal and that continues in the
\* direction of st only while the run is shorter than maxRun
LegalMove17(st, ns, maxRun) ==
    /\ ns[1] = add_tuple(st[1], ns[2])
    /\ ns[2] # <<-st[2][1], -st[2][2]>>
    /\ IF ns[2] = st[2]
       THEN st[3] < maxRun /\ ns[3] = st[3] + 1
       ELSE ns[3] = 1

\* C15: every successor the searches of Day17 generate comes from a legal move (no
\* reversal; straight on only while the run is below 3 in Part1, 10 in Part2); every state
\* stored in min_heatlosses has a run between 0 and that maximum, and a run of 0 only if it
\* is one of the two seed states.
C15_SuccessorsAreLegalMoves ==
    /\ Popping17 =>
          \A top \in {HeapTop(queue)} :
              \A ns \in NewStates17(grid17, part17, top[2]) :
                  LegalMove17(top[2], ns, MaxStraight17(part17))
    /\ (pc17 = "search") =>
          \A e \in queue :
              /\ 0 <= e[2][3] /\ e[2][3] <= MaxStraight17(part17)
              /\ e[2][3] = 0 <=> e[2] \in Seeds17
    /\ Searched17 =>
          \A st \in DOMAIN min_heatlosses :
              /\ 0 <= st[3] /\ st[3] <= MaxStraight17(part17)
              /\ st[3] = 0 <=> st \in Seeds17

C15_Witness ==
    /\ Popping17 /\ part17 = 2
    /\ NumRows(grid17) = 1 /\ NumCols(grid17) = 12
    /\ HeapTop(queue)[2] = <<<<0, 10>>, <<0, 1>>, 10>>
    /\ NewStates17(grid17, part17, HeapTop(queue)[2]) = {}

\* C16: in Day17_Part2 a state with a run below 4 (the seeds included) has no successor
\* but the one straight on, so every turn follows a run of at least 4 moves; and a number
\* is returned exactly when a state at the bottom-right cell with a run of at least 4 is
\* recorded, the least heat loss of those states.
C16_MinRunBeforeTurnAndGoal ==
    /\ (Popping17 /\ part17 = 2) =>
          \A top \in {HeapTop(queue)} :
              \A ns \in NewStates17(grid17, part17, top[2]) :
                  /\ top[2][3] < 4 => ns[2] = top[2][2]
                  /\ ns[2] # top[2][2] => top[2][3] >= 4
    /\ (Searched17 /\ part17 = 2) =>
          \A st \in DOMAIN min_heatlosses :
              (st[3] = 1 /\ st[1] # add_tuple(<<0, 0>>, st[2])) =>
                  \E d \in DIRECTIONS17 \ {st[2]} : \E k \in 4 .. MaxStraight2 :
                      <<<<st[1][1] - st[2][1], st[1][2] - st[2][2]>>, d, k>>
                          \in DOMAIN min_heatlosses
    /\ (pc17 = "done" /\ part17 = 2) =>
          /\ \E st \in DOMAIN min_heatlosses :
                st[1] = Goal17(grid17) /\ st[3] >= 4 /\ min_heatlosses[st] = min_heatloss
          /\ \A st \in DOMAIN min_heatlosses :
                (st[1] = Goal17(grid17) /\ st[3] >= 4) => min_heatloss <= min_heatlosses[st]

C16_Witness ==
    /\ pc17 = "done" /\ part17 = 2
    /\ NumRows(grid17) = 5 /\ NumCols(grid17) = 5
    /\ <<<<1, 4>>, <<1, 0>>, 1>> \in DOMAIN min_heatlosses
    /\ <<<<4, 4>>, <<1, 0>>, 4>> \in DOMAIN min_heatlosses

\* the heat loss of entering the cell of a state
Enter17(g, st) == g[st[1][1]][st[1][2]]

\* the states reached from the seeds by moves along which the recorded heat loss of the
\* state entered is the recorded heat loss of the state left plus the cell entered
RECURSIVE TightReach17(_, _, _, _, _)
TightReach17(g, part, mh, frontier, seen) ==
    IF frontier = {} THEN seen
    ELSE TightReach17(g, part, mh,
            UNION { { ns \in NewStates17(g, part, st) \cap DOMAIN mh :
                        mh[ns] = mh[st] + Enter17(g, ns) } : st \in frontier }
                \ (seen \cup frontier),
            seen \cup frontier)

\* mh holds, for every state that the moves can reach, the least heat loss of a path of
\* moves to it: the seeds cost nothing; no move from a recorded state reaches a state that
\* is not recorded or that is recorded at more than the move would cost (so no entry is
\* above the cost of any path); and every recorded state is reached from a seed by moves
\* that cost exactly the difference of the entries (so every entry is the cost of a path)
ShortestDistances17(g, part, mh) ==
    /\ \A sd \in Seeds17 : sd \in DOMAIN mh /\ mh[sd] = 0
    /\ \A st \in DOMAIN mh : \A ns \in NewStates17(g, part, st) :
          ns \in DOMAIN mh /\ mh[ns] <= mh[st] + Enter17(g, ns)
    /\ TightReach17(g, part, mh, Seeds17, {}) = DOMAIN mh

\* an iteration of the while loop in which the elif branch changes nothing: every
\* successor of the popped state that was recorded already keeps its heat loss
EntriesKept17 ==
    (pc17 = "search" /\ pc17' = "search") =>
        \A top \in {HeapTop(queue)} :
            \A ns \in NewStates17(grid17, part17, top[2]) \cap DOMAIN min_heatlosses :
                /\ ns \in DOMAIN min_heatlosses'
                /\ min_heatlosses'[ns] = min_heatlosses[ns]
                /\ min_heatlosses[ns] <= min_heatlosses[top[2]] + Enter17(grid17, ns)

\* C17: the heat loss stored for a state at its first discovery is its least heat loss
\* under the move rules: no step of the search changes an entry that exists (the
\* tightening branch never fires), and when the search ends every entry of min_heatlosses
\* is the least heat loss of a path of legal moves to its state.
C17_FirstDiscoveryIsOptimal ==
    /\ [][EntriesKept17]_vars
    /\ [](Searched17 => ShortestDistances17(grid17, part17, min_heatlosses))

C17_Witness ==
    /\ pc17 = "done" /\ part17 = 1
    /\ NumRows(grid17) = 3 /\ NumCols(grid17) = 3 /\ grid17[1][1] = 9
    /\ \E st \in DOMAIN min_heatlosses : \E ns \in NewStates17(grid17, part17, st) :
          min_heatlosses[ns] < min_heatlosses[st] + Enter17(grid17, ns)

\* a step of the search that removes no entry of min_heatlosses and raises none
EntriesNeverRise17 ==
    (pc17 = "search" /\ pc17' = "search") =>
        \A st \in DOMAIN min_heatlosses :
            st \in DOMAIN min_heatlosses' /\ min_heatlosses'[st] <= min_heatlosses[st]

\* C18: an entry of min_heatlosses is created when its state is first discovered and is
\* afterwards replaced by a smaller value only: no entry is removed or raised, and every
\* entry is non-negative.
C18_EntriesOnlyDecrease ==
    /\ [][EntriesNeverRise17]_vars
    /\ []((pc17 = "search") => \A e \in queue : e[1] >= 0 /\ min_heatlosses[e[2]] >= 0)
    /\ [](Searched17 => \A st \in DOMAIN min_heatlosses : min_heatlosses[st] >= 0)

C18_Witness ==
    /\ pc17 = "search" /\ part17 = 1
    /\ NumRows(grid17) = 3 /\ NumCols(grid17) = 3 /\ grid17[0][1] = 9
    /\ <<<<0, 1>>, <<0, 1>>, 1>> \in DOMAIN min_heatlosses
    /\ min_heatlosses[<<<<0, 1>>, <<0, 1>>, 1>>] = 9
    /\ <<<<0, 1>>, <<-1, 0>>, 1>> \in DOMAIN min_heatlosses

\* the states that have been popped: recorded and no longer on the heap
Popped17 == DOMAIN min_heatlosses \ {e[2] : e \in queue}

\* every state a search on the grid can be in
States17(g, part) ==
    Cells(NumRows(g), NumCols(g)) \X DIRECTIONS17 \X (0 .. MaxStraight17(part))

\* an iteration of the while loop: the entries it pushes are of states not recorded
\* before, and the one entry it takes off the heap is the popped one, whose state stays
\* recorded
PushOnDiscovery17 ==
    (pc17 = "search" /\ pc17' = "search") =>
        \A top \in {HeapTop(queue)} :
            /\ \A e \in queue' \ queue : e[2] \notin DOMAIN min_heatlosses
            /\ queue \ queue' = {top}
            /\ top[2] \in DOMAIN min_heatlosses'

\* C19: a state is pushed onto the heap only when it is first discovered, so at most once
\* over the run: an iteration pushes only states that are not recorded (so neither on the
\* heap nor popped before), the heap holds recorded states only and never two entries of
\* one state, and when the loop ends every recorded state has been popped and is one of
\* the finitely many states of the grid, which bounds the number of iterations.
C19_PushedAtMostOnce ==
    /\ [][PushOnDiscovery17]_vars
    /\ []((pc17 = "search") =>
             /\ \A e \in queue : e[2] \in DOMAIN min_heatlosses
             /\ Cardinality({e[2] : e \in queue}) = Cardinality(queue))
    /\ [](Searched17 =>
             /\ Popped17 = DOMAIN min_heatlosses
             /\ Popped17 \subseteq States17(grid17, part17))

C19_Witness ==
    /\ pc17 = "search" /\ queue = {} /\ part17 = 1
    /\ NumRows(grid17) = 5 /\ NumCols(grid17) = 5
    /\ Cardinality(Popped17) > 100

(***************************************************************************)
(* Day21: plots reachable in exactly 64 steps (Day21_Part1)                *)
(***************************************************************************)

MaxDim21 == 3       \* gardens of up to MaxDim21 x MaxDim21 plots
MaxRocks21 == 4     \* with at most MaxRocks21 rocks

STEPS21 == 64       \* Day21.py:93

\* Day21.py:62
DIRECTIONS21 == << <<1, 0>>, <<0, 1>>, <<-1, 0>>, <<0, -1>> >>

\* get_input: the rocks, the start and the bounds of a rectangular garden with one S
Gardens21(maxDim, maxRocks) ==
    UNION { { [rocks |-> rk, pos |-> st, bounds |-> b]
              : rk \in SubsetsUpTo(Cells(b[1], b[2]) \ {st}, maxRocks) }
            : <<b, st>> \in { x \in ((1 .. maxDim) \X (1 .. maxDim))
                                    \X ((0 .. maxDim - 1) \X (0 .. maxDim - 1)) :
                                x[2][1] < x[1][1] /\ x[2][2] < x[1][2] } }

\* Day21.py:101
InBounds21(b, p) == 0 <= p[1] /\ p[1] < b[1] /\ 0 <= p[2] /\ p[2] < b[2]

\* the positions one step away from a position of P that are inside the garden and hold
\* no rock (Day21.py:98-104, without the test on all_reached)
StepFrom21(P, rk, b) ==
    { q \in { <<p[1] + DIRECTIONS21[i][1], p[2] + DIRECTIONS21[i][2]>>
              : <<p, i>> \in P \X (1 .. 4) } :
        InBounds21(b, q) /\ q \notin rk }

Init21w ==
    /\ Idle16 /\ Idle21 /\ Idle14 /\ Idle10 /\ Idle17 /\ Idle20 /\ Idle14r /\ Idle18 /\ Idle19 /\ Idle12 /\ Idle15
    /\ \E g \in Gardens21(MaxDim21, MaxRocks21) :
        /\ rocks21 = g.rocks /\ start21 = g.pos /\ bounds21 = g.bounds
        /\ reachable = {g.pos}
        /\ last_reached = {g.pos}
        /\ all_reached = {g.pos}
        /\ walk_ends = {g.pos}
    /\ steps = 0
    /\ num_reachable = 0
    /\ pc21w = "steps"

\* one iteration of `for steps in range(1, 64+1)` (Day21.py:93-112)
Step21 ==
    /\ pc21w = "steps"
    /\ steps < STEPS21
    /\ \E new_last_reached \in {StepFrom21(last_reached, rocks21, bounds21) \ all_reached} :
        /\ all_reached' = all_reached \cup new_last_reached
        /\ reachable' = IF (steps + 1) % 2 = 0
                        THEN reachable \cup new_last_reached
                        ELSE reachable
        /\ last_reached' = new_last_reached
    /\ steps' = steps + 1
    /\ walk_ends' = StepFrom21(walk_ends, rocks21, bounds21)
    /\ UNCHANGED <<rocks21, start21, bounds21, num_reachable, pc21w>>
    /\ Rest21w

\* Day21.py:115-117
Count21 ==
    /\ pc21w = "steps"
    /\ steps = STEPS21
    /\ num_reachable' = Cardinality(reachable)
    /\ pc21w' = "done"
    /\ UNCHANGED <<rocks21, start21, bounds21, reachable, last_reached, all_reached, steps,
                   walk_ends>>
    /\ Rest21w

Next21w ==
    \/ Step21
    \/ Count21

SpecDay21Part1 == Init21w /\ [][Next21w]_vars

\* the start cannot take any step
Blocked21 == StepFrom21({start21}, rocks21, bounds21) = {}

\* C12: when the start of Day21_Part1 cannot take any step, the search ends without error
\* and reports that no plot is reachable in exactly 64 steps.
C12_BlockedStartReportsNone ==
    (pc21w = "done" /\ Blocked21) => num_reachable = 0

\* C13: the number returned by Day21_Part1 is the number of plots where some walk of
\* exactly 64 orthogonal steps from the start, inside the garden and off the rocks, ends.
C13_CountsEndsOfExactWalks ==
    (pc21w = "done") => num_reachable = Cardinality(walk_ends)

(***************************************************************************)
(* Day20: pulse propagation (push_button, pushes_to_low, Day20_Part2 and   *)
(* Day20_Part2_Fast)                                                       *)
(*                                                                         *)
(* A line of the configuration is a record [kind, name, conn]: kind is the *)
(* prefix of the line ("%", "&", or "b" for the broadcaster), conn the     *)
(* list of destination names.  A pulse on the queue is <<pulse, module,    *)
(* source>> as in the code, with pulse 0 for low and 1 for high.           *)
(***************************************************************************)

MaxChain20 == 3     \* counter loops of 1 .. MaxChain20 flip-flops

\* A name is the list of its characters.  Two ways of naming the modules of a loop: all
\* names of one length, as in the puzzle input, and names of different lengths of which
\* one holds another, as the names a, inv, con and output of the puzzle's examples allow.
Namings20 == {"even", "nested"}

Broadcaster == <<"broadcaster">>
Out20 == <<"r", "x">>
Conj20(naming) == IF naming = "even" THEN <<"c", "j">> ELSE <<"a">>

\* the names of the flip-flops of a chain, by position
FlipFlopNames(naming) ==
    IF naming = "even"
    THEN << <<"f", "a">>, <<"f", "b">>, <<"f", "c">>, <<"f", "d">>,
            <<"f", "e">>, <<"f", "g">>, <<"f", "h">>, <<"f", "i">> >>
    ELSE << <<"x">>, <<"b", "a">>, <<"y">>, <<"z">>, <<"u">>, <<"v">>, <<"w">>, <<"t">> >>
FlipFlop(naming, i) == FlipFlopNames(naming)[i + 1]

\* the destinations of the flip-flop at position i of a chain of k: the next flip-flop
\* (the last one has none) and, for the positions in toConj, the conjunction
FlipFlopConn(naming, i, k, toConj, conjFirst) ==
    LET next == IF i < k - 1 THEN <<FlipFlop(naming, i + 1)>> ELSE <<>>
        cj == IF i \in toConj THEN <<Conj20(naming)>> ELSE <<>>
    IN  IF conjFirst THEN cj \o next ELSE next \o cj

\* the flip-flops of the positions in S, in the order of the chain
RECURSIVE ChainNames(_, _, _, _)
ChainNames(naming, S, i, k) ==
    IF i >= k THEN <<>>
    ELSE (IF i \in S THEN <<FlipFlop(naming, i)>> ELSE <<>>) \o ChainNames(naming, S, i + 1, k)

\* get_input(split_loops=True) (Day20.py:32-65): one loop of the machine, the line of the
\* broadcaster cut down to the first flip-flop of the loop, then the chain of flip-flops
\* in order, then the conjunction that closes the loop.  Some flip-flops (the last one
\* always) output to the conjunction; the conjunction outputs to some flip-flops and to
\* one module that has no line in the loop.
Loops20(maxChain) ==
    UNION { { <<[kind |-> "b", name |-> Broadcaster, conn |-> <<FlipFlop(q[5], 0)>>]>>
              \o Tabulate(k, LAMBDA j :
                     [kind |-> "%", name |-> FlipFlop(q[5], j - 1),
                      conn |-> FlipFlopConn(q[5], j - 1, k, q[1] \cup {k - 1}, q[3])])
              \o <<[kind |-> "&", name |-> Conj20(q[5]),
                    conn |-> IF q[4] THEN <<Out20>> \o ChainNames(q[5], q[2], 0, k)
                             ELSE ChainNames(q[5], q[2], 0, k) \o <<Out20>>]>>
              : q \in (SUBSET (0 .. k - 2)) \X (SUBSET (0 .. k - 1)) \X BOOLEAN \X BOOLEAN
                      \X Namings20 }
            : k \in 1 .. maxChain }

\* the elements of a list, as a set
Range(seq) == { seq[i] : i \in 1 .. Len(seq) }

\* extract_modules (Day20.py:99-128)
DefinedNames20(config) == { config[i].name : i \in 1 .. Len(config) }
AllNames20(config) ==
    DefinedNames20(config) \cup UNION { Range(config[i].conn) : i \in 1 .. Len(config) }
LineOf20(config, name) == config[CHOOSE i \in 1 .. Len(config) : config[i].name = name]

extract_modules20(config) ==
    [name \in AllNames20(config) |->
        IF name \notin DefinedNames20(config) THEN 3
        ELSE CASE LineOf20(config, name).kind = "%" -> 0
               [] LineOf20(config, name).kind = "&" -> 1
               [] OTHER -> 2]

extract_states20(config) ==
    [name \in AllNames20(config) \ {Broadcaster} |->
        IF name \notin DefinedNames20(config) THEN <<>>
        ELSE IF LineOf20(config, name).kind = "%" THEN 0
        ELSE [src \in { config[i].name : i \in { j \in 1 .. Len(config) :
                                                 name \in Range(config[j].conn) } } |-> 0]]

extract_connected20(config) ==
    [name \in DefinedNames20(config) |-> LineOf20(config, name).conn]

\* the first untyped module in the order of modules.items() (Day20.py:334): untyped
\* modules are entered in the order in which the lines, and the destinations within a
\* line, name them
End20(config) ==
    LET untyped == { <<i, j>> \in (1 .. Len(config)) \X (1 .. 8) :
                        /\ j <= Len(config[i].conn)
                        /\ config[i].conn[j] \notin DefinedNames20(config) }
        first == CHOOSE x \in untyped : \A y \in untyped :
                    x[1] < y[1] \/ (x[1] = y[1] /\ x[2] <= y[2])
    IN  config[first[1]].conn[first[2]]

\* the numbers of pushes and of pulses within a push that a run is followed for; no run
\* of a counter loop gets there
RECURSIVE Pow2(_)
Pow2(n) == IF n = 0 THEN 1 ELSE 2 * Pow2(n - 1)
PushLimit20 == Pow2(MaxChain20 + 1)
PulseLimit20 == 8 * (MaxChain20 + 2)

\* Day20.py:462 and 333-335: the modules of one loop, before the first push
Init20 ==
    /\ Idle16 /\ Idle21 /\ Idle14 /\ Idle10 /\ Idle17 /\ Idle21w /\ Idle14r /\ Idle18 /\ Idle19 /\ Idle12 /\ Idle15
    /\ loop20 \in Loops20(MaxChain20)
    /\ modules20 = extract_modules20(loop20)
    /\ states20 = extract_states20(loop20)
    /\ connected20 = extract_connected20(loop20)
    /\ queue20 = <<>>
    /\ n_low = 0 /\ n_high = 0
    /\ n20 = 0
    /\ pc20 = "while"
    /\ sent20 = <<>> /\ handled20 = <<>>

\* the pulses a module sends: one to each of its destinations, in their order
Pulses20(pulse, mod) ==
    Tabulate(Len(connected20[mod]), LAMBDA j : <<pulse, connected20[mod][j], mod>>)

\* pushes_to_low calls push_button (Day20.py:337-338); push_button up to its while
\* loop (Day20.py:178-186)
Push20 ==
    /\ pc20 = "while"
    /\ 0 \notin Range(states20[End20(loop20)])
    /\ n20 < PushLimit20
    /\ states20' = [name \in DOMAIN states20 |->
                       IF modules20[name] = 3 THEN <<>> ELSE states20[name]]
    /\ n_low' = 1 /\ n_high' = 0
    /\ queue20' = Pulses20(0, Broadcaster)
    /\ sent20' = Pulses20(0, Broadcaster)
    /\ handled20' = <<>>
    /\ pc20' = "push"
    /\ UNCHANGED <<loop20, modules20, connected20, n20>>
    /\ Rest20

\* a plausible slip: the newest pulse is taken from the queue, not the oldest
Pop20_Newest(q) == <<q[Len(q)], SubSeq(q, 1, Len(q) - 1)>>

\* queue.pop(0) (Day20.py:190): the pulse taken and the queue that is left
Pop20(q) == <<q[1], Tail(q)>>

\* a plausible slip: a conjunction sends low as soon as one remembered input is high
ConjunctionSends_Any(memory) == IF \E src \in DOMAIN memory : memory[src] # 0 THEN 0 ELSE 1

\* Day20.py:209-215: low if all remembered inputs are high, high otherwise
ConjunctionSends(memory) == IF \A src \in DOMAIN memory : memory[src] # 0 THEN 0 ELSE 1

\* one iteration of the while loop of push_button (Day20.py:188-219)
Handle20 ==
    /\ pc20 = "push"
    /\ queue20 # <<>>
    /\ Len(handled20) < PulseLimit20
    /\ \E popped \in {Pop20(queue20)} :
          LET top == popped[1]
              rest == popped[2]
              pulse == top[1]
              mod == top[2]
              source == top[3]
          IN  /\ handled20' = Append(handled20, top)
              /\ n_low' = IF pulse = 0 THEN n_low + 1 ELSE n_low
              /\ n_high' = IF pulse = 0 THEN n_high ELSE n_high + 1
              /\ CASE modules20[mod] = 0 /\ pulse > 0 ->
                        /\ queue20' = rest
                        /\ UNCHANGED <<states20, sent20>>
                   [] modules20[mod] = 0 /\ pulse <= 0 ->
                        \E new \in {(states20[mod] + 1) % 2} :
                            /\ states20' = [states20 EXCEPT ![mod] = new]
                            /\ queue20' = rest \o Pulses20(new, mod)
                            /\ sent20' = sent20 \o Pulses20(new, mod)
                   [] modules20[mod] = 1 ->
                        \E memory \in {(source :> pulse) @@ states20[mod]} :
                            /\ states20' = [states20 EXCEPT ![mod] = memory]
                            /\ queue20' = rest \o Pulses20(ConjunctionSends(memory), mod)
                            /\ sent20' = sent20 \o Pulses20(ConjunctionSends(memory), mod)
                   [] modules20[mod] = 3 ->
                        /\ states20' = [states20 EXCEPT ![mod] = Append(@, pulse)]
                        /\ queue20' = rest
                        /\ UNCHANGED sent20
                   [] OTHER ->
                        /\ queue20' = rest
                        /\ UNCHANGED <<states20, sent20>>
    /\ UNCHANGED <<loop20, modules20, connected20, n20, pc20>>
    /\ Rest20

\* push_button returns (Day20.py:221) and pushes_to_low counts the push (Day20.py:339-340)
Return20 ==
    /\ pc20 = "push"
    /\ queue20 = <<>>
    /\ n20' = n20 + 1
    /\ pc20' = "while"
    /\ UNCHANGED <<loop20, modules20, states20, connected20, queue20, n_low, n_high,
                   sent20, handled20>>
    /\ Rest20

\* pushes_to_low returns n (Day20.py:337, 342)
Found20 ==
    /\ pc20 = "while"
    /\ 0 \in Range(states20[End20(loop20)])
    /\ pc20' = "done"
    /\ UNCHANGED <<loop20, modules20, states20, connected20, queue20, n_low, n_high, n20,
                   sent20, handled20>>
    /\ Rest20

Next20 ==
    \/ Push20
    \/ Handle20
    \/ Return20
    \/ Found20

SpecDay20 == Init20 /\ [][Next20]_vars

\* the text of a line after the arrow: the destinations joined by ", " (Day20.py:25-28)
RECURSIVE Text20(_)
Text20(conn) ==
    IF conn = <<>> THEN <<>>
    ELSE IF Len(conn) = 1 THEN conn[1]
    ELSE conn[1] \o <<",", " ">> \o Text20(Tail(conn))

\* Python's `in` on two strings: word occurs somewhere in text
Contains(text, word) ==
    \E i \in 1 .. Len(text) - Len(word) + 1 : SubSeq(text, i, i + Len(word) - 1) = word

\* Day20_Part2_Fast (Day20.py:506-517): the sum of 2^n over the positions n, counted from
\* 0 along loop[1:-1], of the lines whose text after the arrow holds the name of the
\* conjunction of the loop
Freq20(loop) ==
    LET conj == loop[Len(loop)].name
        Bit(n) == IF Contains(Text20(loop[n + 2].conn), conj) THEN Pow2(n) ELSE 0
        Sum[n \in 0 .. Len(loop) - 2] == IF n = 0 THEN 0 ELSE Sum[n - 1] + Bit(n - 1)
    IN  Sum[Len(loop) - 2]

\* the sum of 2^n over the positions n of the flip-flops that output to the conjunction
SumOfPowers20(loop) ==
    LET conj == loop[Len(loop)].name
        Bit(n) == IF conj \in Range(loop[n + 2].conn) THEN Pow2(n) ELSE 0
        Sum[n \in 0 .. Len(loop) - 2] == IF n = 0 THEN 0 ELSE Sum[n - 1] + Bit(n - 1)
    IN  Sum[Len(loop) - 2]

\* the modules of the loop by their place in it
F0 == loop20[2].name
F1 == loop20[3].name
Cj == loop20[Len(loop20)].name

\* C22: within one call of push_button the pulses are delivered in exactly the order in
\* which they were sent: the pulses handled so far, followed by the pulses waiting on the
\* queue, are the pulses sent so far, in the order of sending.
C22_PulsesHandledInOrderSent ==
    pc20 = "push" =>
        /\ Len(handled20) + Len(queue20) = Len(sent20)
        /\ \A i \in 1 .. Len(handled20) : handled20[i] = sent20[i]
        /\ \A i \in 1 .. Len(queue20) : queue20[i] = sent20[Len(handled20) + i]

\* the first flip-flop sent low to the second and to the conjunction; both were handled,
\* in that order, before the pulse that the second sent in answer
C22_Witness ==
    /\ pc20 = "push"
    /\ Len(loop20) >= 4
    /\ \E i \in 1 .. Len(handled20) - 2 :
          /\ handled20[i] = <<0, F1, F0>>
          /\ handled20[i + 1] = <<0, Cj, F0>>
          /\ handled20[i + 2][3] = F1

\* the pulses sent during a step: the end of the list of pulses sent
NewlySent20 == SubSeq(sent20', Len(sent20) + 1, Len(sent20'))

\* the pulses of one value from a module to each of its destinations, in their order
Fanout20(value, mod) ==
    [j \in 1 .. Len(connected20[mod]) |-> <<value, connected20[mod][j], mod>>]

HandledByType20 ==
    (pc20 = "push" /\ Len(handled20') = Len(handled20) + 1) =>
        \A p \in {handled20'[Len(handled20')]} :
            /\ n_low' + n_high' = n_low + n_high + 1
            /\ n_low' = n_low + (IF p[1] = 0 THEN 1 ELSE 0)
            /\ \A name \in DOMAIN states20 \ {p[2]} : states20'[name] = states20[name]
            /\ (modules20[p[2]] = 0 /\ p[1] = 1) =>
                  /\ states20' = states20
                  /\ NewlySent20 = <<>>
            /\ (modules20[p[2]] = 0 /\ p[1] = 0) =>
                  /\ states20'[p[2]] = 1 - states20[p[2]]
                  /\ NewlySent20 = Fanout20(1 - states20[p[2]], p[2])
            /\ modules20[p[2]] = 1 =>
                  /\ states20'[p[2]][p[3]] = p[1]
                  /\ \A src \in DOMAIN states20[p[2]] \ {p[3]} :
                        states20'[p[2]][src] = states20[p[2]][src]
                  /\ NewlySent20 =
                        Fanout20(IF \A src \in DOMAIN states20'[p[2]] :
                                        states20'[p[2]][src] = 1
                                 THEN 0 ELSE 1, p[2])

\* C23: every delivered pulse is handled by the rule of the type of its receiver.  A
\* flip-flop ignores a high pulse; on a low pulse it toggles and sends its new state to
\* all its destinations.  A conjunction first records the pulse under its source and
\* then sends low to all its destinations if all its remembered inputs are high, high
\* otherwise.  n_low + n_high grows by one per delivered pulse, on top of the one low
\* pulse of the button.
C23_PulsesHandledByType ==
    /\ [][HandledByType20]_vars
    /\ [](pc20 = "push" => n_low + n_high = Len(handled20) + 1)

\* a flip-flop has ignored a high pulse of the conjunction, and the conjunction, with
\* two inputs, has sent low
C23_Witness ==
    /\ pc20 = "push"
    /\ queue20 = <<>>
    /\ \E i \in 1 .. Len(handled20) : handled20[i][1] = 1 /\ modules20[handled20[i][2]] = 0
    /\ \E i \in 1 .. Len(handled20) : handled20[i] = <<0, Out20, Cj>>
    /\ Cardinality(DOMAIN states20[Cj]) >= 2
    /\ n_low + n_high = Len(handled20) + 1

\* C24: for every counter loop, the number of pushes pushes_to_low counts until the
\* module after the conjunction receives a low pulse is the sum of 2^n over the
\* positions n of the flip-flops that output to the conjunction, and it is the number
\* Day20_Part2_Fast computes for the loop, so that Day20_Part2 and Day20_Part2_Fast
\* return the same value.
C24_PushesToLowIsSumOfPowers ==
    pc20 = "done" =>
        /\ n20 = SumOfPowers20(loop20)
        /\ n20 = Freq20(loop20)

\* the first half of C24 alone: pushes_to_low counts the sum of the powers
PushesToLowIsSum20 ==
    /\ pc20 = "done" => n20 = SumOfPowers20(loop20)
    /\ (pc20 = "push" /\ queue20 # <<>>) => Len(handled20) < PulseLimit20
    /\ (pc20 = "while" /\ 0 \notin Range(states20[End20(loop20)])) => n20 < PushLimit20

(***************************************************************************)
(* Day14: one tilt of the dish (roll_rocks) on any layout                  *)
(***************************************************************************)

MaxTilt14 == 6      \* layouts of R x C cells with R * C <= MaxTilt14, any contents

DIRS14 == {"N", "E", "S", "W"}

\* get_input: every rectangular layout of '.', 'O' and '#'
AllLayouts14(maxCells) ==
    UNION { { Tabulate(sh[1], LAMBDA r : Tabulate(sh[2], LAMBDA c : f[<<r, c>>]))
              : f \in [(1 .. sh[1]) \X (1 .. sh[2]) -> {".", "O", "#"}] }
            : sh \in { x \in (1 .. maxCells) \X (1 .. maxCells) : x[1] * x[2] <= maxCells } }

InitTilt14 ==
    /\ Idle16 /\ Idle21 /\ Idle14 /\ Idle10 /\ Idle17 /\ Idle21w /\ Idle20 /\ Idle18 /\ Idle19 /\ Idle12 /\ Idle15
    /\ layout14 \in AllLayouts14(MaxTilt14)
    /\ direction14 = "-"
    /\ rolled14 = <<>>
    /\ pc14r = "call"

\* roll_rocks(rocks, direction) (Day14.py:51-117)
Roll14 ==
    /\ pc14r = "call"
    /\ \E d \in DIRS14 :
          /\ direction14' = d
          /\ rolled14' = roll_rocks(layout14, d)
    /\ pc14r' = "returned"
    /\ UNCHANGED layout14
    /\ Rest14r

\* the layout returned is tilted again, as cycle_rocks does (Day14.py:193-197)
Again14 ==
    /\ pc14r = "returned"
    /\ layout14' = rolled14
    /\ direction14' = "-"
    /\ rolled14' = <<>>
    /\ pc14r' = "call"
    /\ Rest14r

NextTilt14 == Roll14 \/ Again14

SpecDay14Tilt == InitTilt14 /\ [][NextTilt14]_vars

\* the number of lines along the tilt axis, and line k read towards the direction d, so
\* that the end of the line is the side the dish is tilted to
AxisCount(g, d) == IF d \in {"N", "S"} THEN Len(g[1]) ELSE Len(g)
AxisLine(g, d, k) ==
    CASE d = "N" -> [i \in 1 .. Len(g) |-> g[Len(g) + 1 - i][k]]
      [] d = "S" -> [i \in 1 .. Len(g) |-> g[i][k]]
      [] d = "W" -> [i \in 1 .. Len(g[k]) |-> g[k][Len(g[k]) + 1 - i]]
      [] d = "E" -> g[k]

\* the positions a .. b of a line are a maximal run without '#'
MaximalRun(line, a, b) ==
    /\ a <= b
    /\ \A i \in a .. b : line[i] # "#"
    /\ a = 1 \/ line[a - 1] = "#"
    /\ b = Len(line) \/ line[b + 1] = "#"

RoundIn(line, a, b) == Cardinality({ i \in a .. b : line[i] = "O" })

\* C25: for every rectangular layout and every direction, roll_rocks returns a layout of
\* the same dimensions, with every '#' where it was, and with every maximal '#'-free run
\* along the tilt axis holding as many 'O' as before, packed without gaps at the end of
\* the run towards the direction.
C25_TiltPacksEveryRun ==
    pc14r = "returned" =>
        /\ Len(rolled14) = Len(layout14)
        /\ \A r \in 1 .. Len(layout14) :
              /\ Len(rolled14[r]) = Len(layout14[r])
              /\ \A c \in 1 .. Len(layout14[r]) :
                    (rolled14[r][c] = "#") <=> (layout14[r][c] = "#")
        /\ \A k \in 1 .. AxisCount(layout14, direction14) :
              \A before \in {AxisLine(layout14, direction14, k)} :
              \A after \in {AxisLine(rolled14, direction14, k)} :
              \A a \in 1 .. Len(before) : \A b \in a .. Len(before) :
                 MaximalRun(before, a, b) =>
                    \A n \in {RoundIn(before, a, b)} :
                       /\ RoundIn(after, a, b) = n
                       /\ \A i \in a .. b : (after[i] = "O") <=> (i > b - n)

\* a column with two runs, tilted north: the two rocks of the lower run have moved up
\* to the cube, the rock of the upper run to the edge
C25_Witness ==
    /\ pc14r = "returned"
    /\ direction14 = "N"
    /\ layout14 = << <<".">>, <<"O">>, <<"#">>, <<"O">>, <<".">>, <<"O">> >>
    /\ rolled14 = << <<"O">>, <<".">>, <<"#">>, <<"O">>, <<"O">>, <<".">> >>

(***************************************************************************)
(* Day18: the volume of the lagoon by flood fill (Day18_Part1), by the     *)
(* shoelace formula and Pick's theorem (Day18_Part2_Shoelace) and by       *)
(* compressed coordinates (Day18_Part2), each applied to the same list of  *)
(* (direction, distance) steps.                                            *)
(***************************************************************************)

MaxArea18 == 6      \* outlines of sets of unit squares in boxes of h x w <= MaxArea18
MaxScale18 == 2     \* with rows and columns stretched by 1 .. MaxScale18

\* DIRECTIONS (Day18.py:61)
DIRECTIONS18 == [U |-> <<-1, 0>>, R |-> <<0, 1>>, D |-> <<1, 0>>, L |-> <<0, -1>>]
Opposite18 == [U |-> "D", R |-> "L", D |-> "U", L |-> "R"]

\* the directions in which the outline of the squares P leaves the point v
OutlineDirs18(P, v) ==
    (IF North10(P, v) THEN {"U"} ELSE {}) \cup (IF East10(P, v) THEN {"R"} ELSE {})
    \cup (IF South10(P, v) THEN {"D"} ELSE {}) \cup (IF West10(P, v) THEN {"L"} ELSE {})

\* the unit steps along the outline of P from the point v in the direction d, back to s
RECURSIVE Walk18(_, _, _, _, _)
Walk18(P, v, d, s, acc) ==
    LET w == add_tuple(v, DIRECTIONS18[d])
    IN  IF w = s THEN Append(acc, d)
        ELSE Walk18(P, w, CHOOSE x \in OutlineDirs18(P, w) : x # Opposite18[d], s,
                    Append(acc, d))

\* the steps of a walk as a dig plan: runs of one direction joined into one step when
\* joined is true, every unit step on its own otherwise; rows stretched by sc[1],
\* columns by sc[2]
RECURSIVE PlanOf18(_, _, _)
PlanOf18(walk, joined, sc) ==
    IF walk = <<>> THEN <<>>
    ELSE LET rest == PlanOf18(Tail(walk), joined, sc)
             n == IF walk[1] \in {"U", "D"} THEN sc[1] ELSE sc[2]
         IN  IF joined /\ rest # <<>> /\ rest[1][1] = walk[1]
             THEN <<<<walk[1], rest[1][2] + n>>>> \o Tail(rest)
             ELSE <<<<walk[1], n>>>> \o rest

\* the number of unit edges of the outline of P in a box of h x w squares
OutlineLength18(P, h, w) ==
    Cardinality({ v \in Cells(h + 1, w + 1) : East10(P, v) })
    + Cardinality({ v \in Cells(h + 1, w + 1) : South10(P, v) })

\* get_input: the closed dig plans that do not cross or touch themselves, each the
\* outline of a set of unit squares walked once from one of its points, either way round
Plans18(maxArea, maxScale) ==
    UNION UNION { { { PlanOf18(walk, q[1], <<q[2], q[3]>>)
                      : q \in BOOLEAN \X (1 .. maxScale) \X (1 .. maxScale) }
                    : walk \in UNION { { Walk18(P, s, d, s, <<>>) : d \in OutlineDirs18(P, s) }
                          : <<P, s>> \in { x \in (SUBSET Cells(hw[1], hw[2]))
                                                  \X Cells(hw[1] + 1, hw[2] + 1) :
                                /\ \A v \in Cells(hw[1] + 1, hw[2] + 1) : ~Pinch10(x[1], v)
                                /\ OutlineDirs18(x[1], x[2]) # {}
                                /\ \A d \in OutlineDirs18(x[1], x[2]) :
                                      Len(Walk18(x[1], x[2], d, x[2], <<>>))
                                         = OutlineLength18(x[1], hw[1], hw[2]) } } }
                  : hw \in { x \in (1 .. maxArea) \X (1 .. maxArea) : x[1] * x[2] <= maxArea } }

SetMin(S) == CHOOSE x \in S : \A y \in S : x <= y
SetMax(S) == CHOOSE x \in S : \A y \in S : y <= x
Abs(x) == IF x < 0 THEN -x ELSE x

\* every point dug, one per metre (Day18.py:88-93)
RECURSIVE Dug18(_, _, _)
Dug18(plan, k, last) ==
    IF k > Len(plan) THEN {last}
    ELSE LET d == DIRECTIONS18[plan[k][1]]
             n == plan[k][2]
         IN  { <<last[1] + i * d[1], last[2] + i * d[2]>> : i \in 0 .. n }
             \cup Dug18(plan, k + 1, <<last[1] + n * d[1], last[2] + n * d[2]>>)

\* the points reached from the points of frontier over points of the H x W grid that are
\* not blocked (Day18.py:111-127); the set reached does not depend on the order of the queue
RECURSIVE Flood18(_, _, _, _, _)
Flood18(H, W, blocked, frontier, seen) ==
    IF frontier = {} THEN seen
    ELSE \* the points of frontier leave the queue, their free neighbours enter it
         Flood18(H, W, blocked,
                 { p \in UNION { { add_tuple(q, DIRECTIONS18[d]) : d \in DOMAIN DIRECTIONS18 }
                                 : q \in frontier } :
                     /\ p[1] >= 0 /\ p[2] >= 0 /\ p[1] < H /\ p[2] < W
                     /\ p \notin blocked /\ p \notin seen /\ p \notin frontier },
                 seen \cup frontier)

\* Day18_Part1 (Day18.py:87-134)
Day18_Part1(plan) ==
    LET dug == Dug18(plan, 1, <<0, 0>>)
        min0 == SetMin({ p[1] : p \in dug })
        min1 == SetMin({ p[2] : p \in dug })
        outline == { <<p[1] - min0 + 1, p[2] - min1 + 1>> : p \in dug }
        H == SetMax({ p[1] : p \in outline }) + 2
        W == SetMax({ p[2] : p \in outline }) + 2
        outside == Flood18(H, W, outline, {<<0, 0>>}, {})
    IN  H * W - Cardinality(outside)

\* the corners of the boundary (Day18.py:164-169, 213-218), as a list
RECURSIVE Corners18(_, _, _)
Corners18(plan, k, last) ==
    IF k > Len(plan) THEN <<last>>
    ELSE LET d == DIRECTIONS18[plan[k][1]]
             n == plan[k][2]
         IN  <<last>> \o Corners18(plan, k + 1, <<last[1] + n * d[1], last[2] + n * d[2]>>)

\* sum(f(i) for i in range(len(outline) - 1)); positions count from 1 here
SumPairs18(outline, F(_, _)) ==
    LET Sum[i \in 1 .. Len(outline)] ==
            IF i = 1 THEN 0 ELSE Sum[i - 1] + F(outline[i - 1], outline[i])
    IN  Sum[Len(outline)]

\* int(x / 2) for an integer x: Python's int() cuts towards zero
HalfCut(x) == IF x >= 0 THEN x \div 2 ELSE -((-x) \div 2)

\* a plausible slip: the 1 of Pick's theorem is left out
Day18_Part2_Shoelace_NoOne(plan) ==
    LET outline == Corners18(plan, 1, <<0, 0>>)
        left_sum == SumPairs18(outline, LAMBDA a, b : a[1] * b[2])
        right_sum == SumPairs18(outline, LAMBDA a, b : a[2] * b[1])
        edge_points == SumPairs18(outline,
                           LAMBDA a, b : Abs(a[1] - b[1]) + Abs(a[2] - b[2]))
        total_internal_points == HalfCut(Abs(left_sum - right_sum) - edge_points)
    IN  total_internal_points + edge_points

\* Day18_Part2_Shoelace (Day18.py:162-183); area + 1 - edge_points/2 is kept doubled up
\* to the cut of int()
Day18_Part2_Shoelace(plan) ==
    LET outline == Corners18(plan, 1, <<0, 0>>)
        left_sum == SumPairs18(outline, LAMBDA a, b : a[1] * b[2])
        right_sum == SumPairs18(outline, LAMBDA a, b : a[2] * b[1])
        edge_points == SumPairs18(outline,
                           LAMBDA a, b : Abs(a[1] - b[1]) + Abs(a[2] - b[2]))
        total_internal_points == HalfCut(Abs(left_sum - right_sum) + 2 - edge_points)
    IN  total_internal_points + edge_points

\* sorted(list(S)) for a set of integers
RECURSIVE Sorted18(_)
Sorted18(S) == IF S = {} THEN <<>> ELSE <<SetMin(S)>> \o Sorted18(S \ {SetMin(S)})

\* list.index(x), counted from 1
Index18(divs, x) == CHOOSE i \in 1 .. Len(divs) : divs[i] = x

\* the divisions: the coordinates of the corners and one more on either side
\* (Day18.py:222-229)
Divs18(outline, axis) ==
    LET coords == { outline[i][axis] : i \in 1 .. Len(outline) }
    IN  Sorted18(coords \cup {SetMin(coords) - 1, SetMax(coords) + 1})

\* outline_set (Day18.py:231-244): the pieces of the boundary between two divisions
OutlineSet18(outline, v_divs, h_divs) ==
    UNION { (IF outline[i][1] = outline[i + 1][1]
             THEN LET first_ind == Index18(h_divs, outline[i][2])
                      last_ind == Index18(h_divs, outline[i + 1][2])
                  IN  { << <<outline[i][1], h_divs[j]>>, <<outline[i][1], h_divs[j + 1]>> >>
                        : j \in Min2(first_ind, last_ind)
                                .. (IF first_ind > last_ind THEN first_ind ELSE last_ind) - 1 }
             ELSE {})
            \cup
            (IF outline[i][2] = outline[i + 1][2]
             THEN LET first_ind == Index18(v_divs, outline[i][1])
                      last_ind == Index18(v_divs, outline[i + 1][1])
                  IN  { << <<v_divs[j], outline[i][2]>>, <<v_divs[j + 1], outline[i][2]>> >>
                        : j \in Min2(first_ind, last_ind)
                                .. (IF first_ind > last_ind THEN first_ind ELSE last_ind) - 1 }
             ELSE {})
            : i \in 1 .. Len(outline) - 1 }

\* the four sides of the section <<v, h>> (Day18.py:250-253, 273-276); sections count
\* from 0 as in the code
Side18(v_divs, h_divs, section, d) ==
    LET top_left == <<v_divs[section[1] + 1], h_divs[section[2] + 1]>>
        top_right == <<v_divs[section[1] + 1], h_divs[section[2] + 2]>>
        bottom_left == <<v_divs[section[1] + 2], h_divs[section[2] + 1]>>
        bottom_right == <<v_divs[section[1] + 2], h_divs[section[2] + 2]>>
    IN  CASE d = "R" -> <<top_right, bottom_right>>
          [] d = "D" -> <<bottom_left, bottom_right>>
          [] d = "L" -> <<top_left, bottom_left>>
          [] d = "U" -> <<top_left, top_right>>

\* the sections reached from the sections of frontier without crossing a piece of the
\* boundary (Day18.py:246-268); the set reached does not depend on the order of the queue
RECURSIVE Outside18(_, _, _, _, _)
Outside18(v_divs, h_divs, outline_set, frontier, seen) ==
    IF frontier = {} THEN seen
    ELSE Outside18(v_divs, h_divs, outline_set,
                   { n \in UNION { { add_tuple(q, DIRECTIONS18[d]) :
                                       d \in { x \in DOMAIN DIRECTIONS18 :
                                                 Side18(v_divs, h_divs, q, x) \notin outline_set } }
                                   : q \in frontier } :
                       /\ n[1] >= 0 /\ n[2] >= 0
                       /\ n[1] < Len(v_divs) - 1 /\ n[2] < Len(h_divs) - 1
                       /\ n \notin seen /\ n \notin frontier },
                   seen \cup frontier)

\* what one section adds to the volume (Day18.py:272-296)
SectionVolume18(v_divs, h_divs, outline_set, outside, section) ==
    LET right == Side18(v_divs, h_divs, section, "R") \in outline_set
        bottom == Side18(v_divs, h_divs, section, "D") \in outline_set
        h_side == h_divs[section[2] + 2] - h_divs[section[2] + 1] + (IF right THEN 1 ELSE 0)
        v_side == v_divs[section[1] + 2] - v_divs[section[1] + 1] + (IF bottom THEN 1 ELSE 0)
    IN  IF section \in outside THEN 0
        ELSE v_side * h_side - (IF right /\ bottom THEN 1 ELSE 0)

\* the two for loops over the sections (Day18.py:270-271)
SumSections18(nv, nh, F(_)) ==
    LET Sum[k \in 0 .. nv * nh] ==
            IF k = 0 THEN 0 ELSE Sum[k - 1] + F(<<(k - 1) \div nh, (k - 1) % nh>>)
    IN  Sum[nv * nh]

\* Day18_Part2 (Day18.py:211-298)
Day18_Part2(plan) ==
    LET outline == Corners18(plan, 1, <<0, 0>>)
        v_divs == Divs18(outline, 1)
        h_divs == Divs18(outline, 2)
        outline_set == OutlineSet18(outline, v_divs, h_divs)
        outside == Outside18(v_divs, h_divs, outline_set, {<<0, 0>>}, {})
    IN  SumSections18(Len(v_divs) - 1, Len(h_divs) - 1,
                      LAMBDA sec : SectionVolume18(v_divs, h_divs, outline_set, outside, sec)) + 1

Init18 ==
    /\ Idle16 /\ Idle21 /\ Idle14 /\ Idle10 /\ Idle17 /\ Idle21w /\ Idle20 /\ Idle14r /\ Idle19 /\ Idle12 /\ Idle15
    /\ plan18 \in Plans18(MaxArea18, MaxScale18)
    /\ volume_flood = -1
    /\ volume_shoelace = -1
    /\ volume_sections = -1

\* the three functions are applied to the plan one after another
FloodFill18 ==
    /\ volume_flood = -1
    /\ volume_flood' = Day18_Part1(plan18)
    /\ UNCHANGED <<plan18, volume_shoelace, volume_sections>>
    /\ Rest18

Shoelace18 ==
    /\ volume_flood # -1
    /\ volume_shoelace = -1
    /\ volume_shoelace' = Day18_Part2_Shoelace(plan18)
    /\ UNCHANGED <<plan18, volume_flood, volume_sections>>
    /\ Rest18

Sections18 ==
    /\ volume_shoelace # -1
    /\ volume_sections = -1
    /\ volume_sections' = Day18_Part2(plan18)
    /\ UNCHANGED <<plan18, volume_flood, volume_shoelace>>
    /\ Rest18

Next18 == FloodFill18 \/ Shoelace18 \/ Sections18

SpecDay18 == Init18 /\ [][Next18]_vars

\* the plan walks round a rectangle in four steps
Rectangle18 ==
    /\ Len(plan18) = 4
    /\ plan18[1][2] = plan18[3][2]
    /\ plan18[2][2] = plan18[4][2]

\* C26: for every closed dig plan that does not cross itself the flood fill, the
\* shoelace formula with Pick's theorem and the compressed coordinates give the same
\* volume; for a rectangle of w by h steps it is (w + 1) * (h + 1).
C26_ThreeVolumesAgree ==
    /\ (volume_flood # -1 /\ volume_shoelace # -1) => volume_flood = volume_shoelace
    /\ (volume_flood # -1 /\ volume_sections # -1) => volume_flood = volume_sections
    /\ (volume_shoelace # -1 /\ volume_sections # -1) => volume_shoelace = volume_sections
    /\ Rectangle18 =>
          \A vol \in {volume_flood, volume_shoelace, volume_sections} \ {-1} :
              vol = (plan18[1][2] + 1) * (plan18[2][2] + 1)

\* a lagoon with a notch in its upper side (a U), walked in eight steps: all three
\* volumes are there and agree
C26_Witness ==
    /\ Len(plan18) = 8
    /\ volume_flood # -1
    /\ volume_flood = volume_shoelace
    /\ volume_flood = volume_sections
    /\ \E i \in 1 .. 6 : plan18[i][1] = "D" /\ plan18[i + 1][1] = "R" /\ plan18[i + 2][1] = "U"

(***************************************************************************)
(* Day19: counting the accepted combinations of ratings by splitting       *)
(* ranges (Day19_Part2, split_dests) against the evaluation of one part    *)
(* at a time (process_workflow, as Day19_Part1 uses it).                   *)
(*                                                                         *)
(* A conditional rule ("x>10", "px") is <<"x", ">", 10, "px">>, with the   *)
(* condition split as the code splits it; an unconditional rule "px" is    *)
(* <<"px">>.  A range is the pair <<low, high>> of the code, which stands  *)
(* for the values strictly between low and high.                           *)
(***************************************************************************)

MaxLimit19 == 2     \* the limits of the rules are 1 .. MaxLimit19

TopRating19 == 4000
CATEGORIES19 == {"x", "m", "a", "s"}

\* get_input: an `in` workflow of two conditional rules and a last rule without
\* condition, and a workflow `px` of one conditional rule and a last rule
Workflows19(maxLimit) ==
    { [in |-> <<r[1], r[2], <<r[3]>>>>, px |-> <<<<"x", p[1], p[2], p[3]>>, <<p[4]>>>>]
      : <<r, p>> \in
          ( ( ({"x", "m"} \X {"<", ">"} \X (1 .. maxLimit) \X {"A", "R", "px"})
              \X ({"x", "m"} \X {"<", ">"} \X (1 .. maxLimit) \X {"A", "R", "px"})
              \X {"A", "R"} )
            \X { q \in {"<", ">"} \X (1 .. maxLimit) \X {"A", "R"} \X {"A", "R"} :
                   q[3] # q[4] } ) }

\* Whole numbers beyond the range of the checker's integers, written to the base
\* BigBase with the lowest digit first; the last digit carries the sign.
BigBase == 10000
BigDigits == 5
BigNorm(ds) ==
    LET Carry[i \in 0 .. BigDigits - 1] ==
            IF i = 0 THEN 0 ELSE (ds[i] + Carry[i - 1]) \div BigBase
    IN  [i \in 1 .. BigDigits |->
            IF i < BigDigits THEN (ds[i] + Carry[i - 1]) % BigBase
            ELSE ds[i] + Carry[i - 1]]
BigOf(n) == BigNorm([i \in 1 .. BigDigits |-> IF i = 1 THEN n ELSE 0])
BigTimes(b, f) == BigNorm([i \in 1 .. BigDigits |-> b[i] * f])
BigPlus(a, b) == BigNorm([i \in 1 .. BigDigits |-> a[i] + b[i]])

\* process_workflow (Day19.py:88-108)
RECURSIVE process_rules(_, _, _)
process_rules(workflow, k, part) ==
    LET rule == workflow[k]
    IN  IF Len(rule) = 4
        THEN IF \/ rule[2] = ">" /\ part[rule[1]] > rule[3]
                \/ rule[2] = "<" /\ part[rule[1]] < rule[3]
             THEN rule[4]
             ELSE process_rules(workflow, k + 1, part)
        ELSE rule[1]
process_workflow(workflow, part) == process_rules(workflow, 1, part)

\* the loop of Day19_Part1 for one part (Day19.py:137-141): where the part ends
RECURSIVE Settle19(_, _, _)
Settle19(workflows, dest, part) ==
    IF dest \in {"A", "R"} THEN dest
    ELSE Settle19(workflows, process_workflow(workflows[dest], part), part)

\* The number of combinations of ratings in 1 .. TopRating19 that the evaluation of one
\* part at a time accepts.  Two values of a rating that compare alike with every limit
\* 1 .. maxLimit are treated alike by every rule: each value up to maxLimit stands for
\* itself and maxLimit + 1 stands for all the greater ones; a and s are in no condition.
AcceptedCombinations19(workflows, maxLimit) ==
    LET Weight(v) == IF v <= maxLimit THEN 1 ELSE TopRating19 - maxLimit
        Accepted(x, m) ==
            Settle19(workflows, "in", [x |-> x, m |-> m, a |-> 1, s |-> 1]) = "A"
        pairs == { q \in (1 .. maxLimit + 1) \X (1 .. maxLimit + 1) : Accepted(q[1], q[2]) }
        Sum[k \in 0 .. (maxLimit + 1) * (maxLimit + 1)] ==
            IF k = 0 THEN 0
            ELSE LET q == <<((k - 1) \div (maxLimit + 1)) + 1, ((k - 1) % (maxLimit + 1)) + 1>>
                 IN  Sum[k - 1] + (IF q \in pairs THEN Weight(q[1]) * Weight(q[2]) ELSE 0)
    IN  BigTimes(BigTimes(BigOf(Sum[(maxLimit + 1) * (maxLimit + 1)]), TopRating19),
                 TopRating19)

\* the rules of one workflow applied to one part range (Day19.py:183-211): the list of
\* (destination, range) pairs they append to parts_out
RECURSIVE split_rules(_, _, _)
split_rules(rules, k, parts_in) ==
    IF k > Len(rules) THEN <<>>
    ELSE LET rule == rules[k]
         IN  IF Len(rule) = 4
             THEN IF rule[2] = ">"
                  THEN << <<rule[4], [parts_in EXCEPT ![rule[1]] = <<rule[3], @[2]>>]>> >>
                       \o split_rules(rules, k + 1,
                                      [parts_in EXCEPT ![rule[1]] = <<@[1], rule[3] + 1>>])
                  ELSE << <<rule[4], [parts_in EXCEPT ![rule[1]] = <<@[1], rule[3]>>]>> >>
                       \o split_rules(rules, k + 1,
                                      [parts_in EXCEPT ![rule[1]] = <<rule[3] - 1, @[2]>>])
             ELSE << <<rule[1], parts_in>> >> \o split_rules(rules, k + 1, parts_in)

\* split_dests (Day19.py:178-213); each entry is given with the range it was split from
RECURSIVE split_dests(_, _, _)
split_dests(workflows, part_locs, k) ==
    IF k > Len(part_locs) THEN <<>>
    ELSE LET out == split_rules(workflows[part_locs[k][1]], 1, part_locs[k][2])
         IN  [i \in 1 .. Len(out) |-> <<out[i][1], out[i][2], part_locs[k][2]>>]
             \o split_dests(workflows, part_locs, k + 1)

\* reduce(operator.mul, [lims[1] - lims[0] - 1 for lims in parts.values()])
\* (Day19.py:256-257)
Combinations19(parts) ==
    BigTimes(BigTimes(BigTimes(BigOf(parts["x"][2] - parts["x"][1] - 1),
                               parts["m"][2] - parts["m"][1] - 1),
                      parts["a"][2] - parts["a"][1] - 1),
             parts["s"][2] - parts["s"][1] - 1)

\* Day19_Part2 up to its while loop (Day19.py:236-243)
Init19 ==
    /\ Idle16 /\ Idle21 /\ Idle14 /\ Idle10 /\ Idle17 /\ Idle21w /\ Idle20 /\ Idle14r /\ Idle12 /\ Idle15
    /\ Idle18
    /\ workflows19 \in Workflows19(MaxLimit19)
    /\ part_locs19 = << <<"in", [c \in CATEGORIES19 |-> <<0, TopRating19 + 1>>]>> >>
    /\ final_state19 = [A |-> BigOf(0), R |-> BigOf(0)]
    /\ produced19 = <<>>
    /\ num_comb19 = BigOf(0)
    /\ pc19 = "while"

\* the entries of new_part_locs from position k on, added to final_state or kept
\* (Day19.py:252-260)
RECURSIVE Tally19(_, _, _)
Tally19(new_part_locs, k, acc) ==
    IF k > Len(new_part_locs) THEN acc
    ELSE LET dest == new_part_locs[k][1]
             parts == new_part_locs[k][2]
         IN  Tally19(new_part_locs, k + 1,
                     IF dest \in {"A", "R"}
                     THEN [acc EXCEPT !.final[dest] = BigPlus(@, Combinations19(parts))]
                     ELSE [acc EXCEPT !.locs = Append(@, <<dest, parts>>)])

\* one iteration of the while loop of Day19_Part2 (Day19.py:246-260)
Split19 ==
    /\ pc19 = "while"
    /\ part_locs19 # <<>>
    /\ \E new_part_locs \in {split_dests(workflows19, part_locs19, 1)} :
       \E tally \in {Tally19(new_part_locs, 1, [final |-> final_state19, locs |-> <<>>])} :
          /\ produced19' = new_part_locs
          /\ final_state19' = tally.final
          /\ part_locs19' = tally.locs
    /\ UNCHANGED <<workflows19, num_comb19, pc19>>
    /\ Rest19

\* Day19_Part2 returns (Day19.py:246, 263-265)
Return19 ==
    /\ pc19 = "while"
    /\ part_locs19 = <<>>
    /\ num_comb19' = final_state19["A"]
    /\ pc19' = "done"
    /\ UNCHANGED <<workflows19, part_locs19, final_state19, produced19>>
    /\ Rest19

Next19 == Split19 \/ Return19

SpecDay19 == Init19 /\ [][Next19]_vars

\* C27: the number Day19_Part2 returns is the number of combinations of ratings, each
\* 1 .. 4000, that the evaluation of one part at a time accepts; and every range
\* split_dests produces is a non-empty sub-range of the range it was split from, also
\* when the limit of a rule lies outside the range.
C27_RangeCountIsPartCount ==
    /\ pc19 = "done" => num_comb19 = AcceptedCombinations19(workflows19, MaxLimit19)
    /\ \A i \in 1 .. Len(produced19) : \A c \in CATEGORIES19 :
          /\ produced19[i][3][c][1] <= produced19[i][2][c][1]
          /\ produced19[i][2][c][2] <= produced19[i][3][c][2]
          /\ produced19[i][2][c][2] - produced19[i][2][c][1] - 1 >= 1

(***************************************************************************)
(* Day12: counting the arrangements of a spring record (valid_arrs).  A    *)
(* record is the list of its characters; positions count from 1 where      *)
(* Python counts from 0.                                                   *)
(***************************************************************************)

MaxLen12 == 5       \* records of 1 .. MaxLen12 characters
MaxGroups12 == 2    \* nums of 0 .. MaxGroups12 sizes
MaxSize12 == 2      \* each size in 1 .. MaxSize12

Records12(maxLen) == UNION { [1 .. n -> {".", "#", "?"}] : n \in 1 .. maxLen }
Nums12(maxGroups, maxSize) == UNION { [1 .. n -> 1 .. maxSize] : n \in 0 .. maxGroups }

\* tuple(len(s) for s in text.split('.') if s) (Day12.py:82, 107): the lengths of the
\* maximal runs of characters other than '.', left to right
RECURSIVE Groups12(_, _, _)
Groups12(text, k, run) ==
    IF k > Len(text) THEN (IF run > 0 THEN <<run>> ELSE <<>>)
    ELSE IF text[k] = "." THEN (IF run > 0 THEN <<run>> ELSE <<>>) \o Groups12(text, k + 1, 0)
    ELSE Groups12(text, k + 1, run + 1)

\* str.index(ch) and str.rindex(ch, 0, i), for a character that is there
Index12(text, ch) == CHOOSE i \in 1 .. Len(text) : text[i] = ch /\ \A j \in 1 .. i - 1 : text[j] # ch
RIndex12(text, ch, before) ==
    CHOOSE i \in 1 .. before - 1 : text[i] = ch /\ \A j \in i + 1 .. before - 1 : text[j] # ch

\* valid_arrs for a record that holds a '?' (Day12.py:68-110)
RECURSIVE CountArrs12(_, _)
CountArrs12(arr, nums) ==
    LET i == Index12(arr, "?")
        Branch(rep) ==
            LET arr_copy == [arr EXCEPT ![i] = rep]
                test == Groups12(SubSeq(arr_copy, 1, i), 1, 0)
                n == Len(test)
            IN  IF \E k \in 1 .. Len(arr_copy) : arr_copy[k] = "?"
                THEN IF n = 0 THEN CountArrs12(arr_copy, nums)
                     ELSE IF /\ n <= Len(nums)
                             /\ SubSeq(test, 1, n - 1) = SubSeq(nums, 1, n - 1)
                             /\ test[n] <= nums[n]
                          THEN IF rep = "."
                               THEN CountArrs12(SubSeq(arr_copy,
                                                       RIndex12(arr_copy, "#", i) - test[n] + 1,
                                                       Len(arr_copy)),
                                                SubSeq(nums, n, Len(nums)))
                               ELSE CountArrs12(SubSeq(arr_copy, i - test[n] + 1, Len(arr_copy)),
                                                SubSeq(nums, n, Len(nums)))
                          ELSE 0
                ELSE IF Groups12(arr_copy, 1, 0) = nums THEN 1 ELSE 0
    IN  Branch("#") + Branch(".")

\* valid_arrs(arr, nums): arr.index('?') raises ValueError when arr holds no '?'
\* (Day12.py:70)
valid_arrs(arr, nums) ==
    IF \E k \in 1 .. Len(arr) : arr[k] = "?"
    THEN <<"returns", CountArrs12(arr, nums)>>
    ELSE <<"raises", "ValueError">>

Init12 ==
    /\ Idle16 /\ Idle21 /\ Idle14 /\ Idle10 /\ Idle17 /\ Idle21w /\ Idle20 /\ Idle14r
    /\ Idle18 /\ Idle19 /\ Idle15
    /\ arr12 \in Records12(MaxLen12)
    /\ nums12 \in Nums12(MaxGroups12, MaxSize12)
    /\ result12 = <<>>
    /\ pc12 = "call"

\* the call of valid_arrs (Day12.py:140, 178)
Call12 ==
    /\ pc12 = "call"
    /\ result12' = valid_arrs(arr12, nums12)
    /\ pc12' = "returned"
    /\ UNCHANGED <<arr12, nums12>>
    /\ Rest12

Next12 == Call12

SpecDay12 == Init12 /\ [][Next12]_vars

\* the number of ways to replace each '?' of the record by '.' or '#' so that the sizes
\* of the runs of '#' are nums
Arrangements12(arr, nums) ==
    Cardinality({ f \in [{ k \in 1 .. Len(arr) : arr[k] = "?" } -> {".", "#"}] :
                    Groups12([k \in 1 .. Len(arr) |-> IF arr[k] = "?" THEN f[k] ELSE arr[k]],
                             1, 0) = nums })

\* C28: for every record and every tuple of sizes valid_arrs returns the number of ways
\* to replace each '?' by '.' or '#' so that the sizes of the runs of '#' equal nums; for
\* a record without '?' that is 1 if the record matches nums and 0 otherwise.
C28_CountsArrangements ==
    pc12 = "returned" => result12 = <<"returns", Arrangements12(arr12, nums12)>>

(***************************************************************************)
(* Day15: the lens boxes (Day15_Part2, HASH).  An instruction is the list  *)
(* of its characters, as in <<"r", "n", "=", "1">>.                        *)
(***************************************************************************)

MaxSteps15 == 4     \* instruction lists of up to MaxSteps15 instructions
MaxFocal15 == 2     \* focal lengths 1 .. MaxFocal15

\* ord(char) for the characters of the labels
Ord15 == [a |-> 97, b |-> 98, c |-> 99, m |-> 109, n |-> 110, o |-> 111, p |-> 112,
          q |-> 113, r |-> 114, t |-> 116]

\* the labels of the instructions: rn and cm share a box, and so do pc and ot
Labels15 == { <<"r", "n">>, <<"c", "m">>, <<"q", "p">>, <<"p", "c">>, <<"o", "t">> }

DigitChars == <<"1", "2", "3", "4", "5", "6", "7", "8", "9">>

\* get_input: the instructions label- and label=f
Strings15(maxFocal) ==
    { label \o <<"-">> : label \in Labels15 }
    \cup { q[1] \o <<"=", DigitChars[q[2]]>> : q \in Labels15 \X (1 .. maxFocal) }

\* HASH (Day15.py:44-74)
RECURSIVE HashFrom(_, _, _)
HashFrom(string, k, current_value) ==
    IF k > Len(string) THEN current_value
    ELSE HashFrom(string, k + 1, (17 * (current_value + Ord15[string[k]])) % 256)
HASH(string) == HashFrom(string, 1, 0)

\* int(focal_len) for a string of digits
RECURSIVE IntFrom(_, _, _)
IntFrom(digits, k, acc) ==
    IF k > Len(digits) THEN acc
    ELSE IntFrom(digits, k + 1,
                 10 * acc + (CHOOSE d \in 1 .. 9 : DigitChars[d] = digits[k]))
Int15(digits) == IntFrom(digits, 1, 0)

\* box_ind (Day15.py:159, 170): the positions in the box of the lenses with the label
BoxInd(box, label) == { i \in 1 .. Len(box) : box[i][1] = label }

\* list.pop(i), counted from 1
Pop15(box, i) == SubSeq(box, 1, i - 1) \o SubSeq(box, i + 1, Len(box))

\* the position of the character ch in the instruction
Find15(string, ch) == CHOOSE i \in 1 .. Len(string) : string[i] = ch

\* a plausible slip: the new lens goes to the back of the box, also when the label is
\* already there
Place15_MoveToBack(box, label, focal_len) ==
    IF BoxInd(box, label) # {}
    THEN Append(Pop15(box, SetMin(BoxInd(box, label))), <<label, focal_len>>)
    ELSE Append(box, <<label, focal_len>>)

\* the '=' instruction on one box (Day15.py:170-176)
Place15(box, label, focal_len) ==
    IF BoxInd(box, label) # {}
    THEN [box EXCEPT ![SetMin(BoxInd(box, label))] = <<label, focal_len>>]
    ELSE Append(box, <<label, focal_len>>)

\* the '-' instruction on one box (Day15.py:159-162)
Remove15(box, label) ==
    IF BoxInd(box, label) # {} THEN Pop15(box, SetMin(BoxInd(box, label))) ELSE box

\* Day15_Part2 up to its loop (Day15.py:147-149)
Init15 ==
    /\ Idle16 /\ Idle21 /\ Idle14 /\ Idle10 /\ Idle17 /\ Idle21w /\ Idle20 /\ Idle14r
    /\ Idle18 /\ Idle19 /\ Idle12
    /\ boxes15 = [n \in 0 .. 255 |-> <<>>]
    /\ string15 = <<>>
    /\ done15 = 0
    /\ total_focusing_power = -1
    /\ pc15 = "loop"

\* one instruction (Day15.py:151-176)
Instruction15 ==
    /\ pc15 = "loop"
    /\ done15 < MaxSteps15
    /\ \E string \in Strings15(MaxFocal15) :
          /\ string15' = string
          /\ IF \E i \in 1 .. Len(string) : string[i] = "-"
             THEN LET label == SubSeq(string, 1, Len(string) - 1)
                      box_num == HASH(label)
                  IN  boxes15' = [boxes15 EXCEPT ![box_num] = Remove15(@, label)]
             ELSE IF \E i \in 1 .. Len(string) : string[i] = "="
             THEN LET label == SubSeq(string, 1, Find15(string, "=") - 1)
                      focal_len == SubSeq(string, Find15(string, "=") + 1, Len(string))
                      box_num == HASH(label)
                  IN  boxes15' = [boxes15 EXCEPT ![box_num] = Place15(@, label, Int15(focal_len))]
             ELSE UNCHANGED boxes15
    /\ done15' = done15 + 1
    /\ UNCHANGED <<total_focusing_power, pc15>>
    /\ Rest15

\* the focusing power of the lenses of box n from slot i on (Day15.py:183-185)
RECURSIVE BoxPower15(_, _, _)
BoxPower15(box, n, i) ==
    IF i > Len(box) THEN 0 ELSE (n + 1) * i * box[i][2] + BoxPower15(box, n, i + 1)
\* the sum over the boxes; an empty box adds nothing, so the boxes that hold a lens
\* are enough
RECURSIVE Power15(_, _)
Power15(boxes, S) ==
    IF S = {} THEN 0
    ELSE BoxPower15(boxes[SetMin(S)], SetMin(S), 1) + Power15(boxes, S \ {SetMin(S)})

\* the list of instructions is at its end (Day15.py:178-187)
Return15 ==
    /\ pc15 = "loop"
    /\ total_focusing_power' = Power15(boxes15, { n \in DOMAIN boxes15 : boxes15[n] # <<>> })
    /\ pc15' = "done"
    /\ UNCHANGED <<boxes15, string15, done15>>
    /\ Rest15

Next15 == Instruction15 \/ Return15

SpecDay15 == Init15 /\ [][Next15]_vars

\* the label and the operation of an instruction
LabelOf15(string) ==
    SubSeq(string, 1, (CHOOSE i \in 1 .. Len(string) : string[i] \in {"-", "="}) - 1)
OpOf15(string) == string[Len(LabelOf15(string)) + 1]
Labels(box) == [i \in 1 .. Len(box) |-> box[i][1]]

\* each box holds at most one lens per label, and every lens lies in the box of the
\* hash of its label, a number from 0 to 255
BoxesInOrder15 ==
    \A n \in DOMAIN boxes15 :
        /\ n \in 0 .. 255
        /\ \A i \in 1 .. Len(boxes15[n]) :
              /\ HASH(boxes15[n][i][1]) = n
              /\ \A j \in 1 .. Len(boxes15[n]) : boxes15[n][i][1] = boxes15[n][j][1] => i = j

\* what one instruction does to the boxes
InstructionRule15 ==
    done15' = done15 + 1 =>
        \A label \in {LabelOf15(string15')} :
        \A old \in {boxes15[HASH(label)]} :
        \A new \in {boxes15'[HASH(label)]} :
            /\ \A n \in DOMAIN boxes15 \ {HASH(label)} : boxes15'[n] = boxes15[n]
            /\ (OpOf15(string15') = "=" /\ BoxInd(old, label) # {}) =>
                  /\ Labels(new) = Labels(old)
                  /\ \A i \in 1 .. Len(old) :
                        new[i] = IF old[i][1] = label
                                 THEN <<label, Int15(SubSeq(string15', Len(label) + 2,
                                                            Len(string15')))>>
                                 ELSE old[i]
            /\ (OpOf15(string15') = "=" /\ BoxInd(old, label) = {}) =>
                  new = Append(old, <<label, Int15(SubSeq(string15', Len(label) + 2,
                                                          Len(string15')))>>)
            /\ (OpOf15(string15') = "-" /\ BoxInd(old, label) = {}) => new = old
            /\ (OpOf15(string15') = "-" /\ BoxInd(old, label) # {}) =>
                  /\ Len(new) = Len(old) - 1
                  /\ \A i \in 1 .. Len(new) : new[i][1] # label
                  /\ \E k \in 1 .. Len(old) :
                        /\ old[k][1] = label
                        /\ \A i \in 1 .. Len(new) : new[i] = IF i < k THEN old[i] ELSE old[i + 1]

====
